---- MODULE Spec2Model ----
(***************************************************************************)
(* Outbound payment engine of lightning/src/ln/outbound_payment.rs.        *)
(*                                                                         *)
(* The registry (pending_outbound_payments) is a map behind one mutex; an  *)
(* operation is a sequence of steps, one step per critical section of the  *)
(* mutex.  Work done between two critical sections that reads no shared    *)
(* state (route validation, result classification, the router and the      *)
(* dispatch callback) is folded into the critical section that follows or  *)
(* precedes it.  Several threads run operations concurrently.              *)
(***************************************************************************)
EXTENDS Integers, Sequences, FiniteSets, TLC

VARIABLES
    pending,      \* pending_outbound_payments: PaymentId -> entry (kind "None" = vacant)
    events,       \* pending_events: the queue the engine pushes events to
    htlcs,        \* per session_priv: the path it was drawn for and the fate of its HTLC
    nextPriv,     \* the entropy source: next unused session_priv
    th,           \* per thread: the running operation, its position and its locals
    hist,         \* per PaymentId, since its entry was registered: events produced for it
    poisoned      \* a thread panicked while holding the registry mutex

vars == <<pending, events, htlcs, nextPriv, th, hist, poisoned>>

----------------------------------------------------------------------------
(* Bounds of the model *)

MaxSessions == 3      \* session_privs the entropy source hands out in one run
MaxEvents == 2        \* events held in the queue before the user drains it
MaxAttempts == 1      \* largest n of Retry::Attempts(n) a send is given
MaxCount == 2         \* attempts.count of a payment without a retry strategy

Threads == {"t1", "t2"}
PaymentIds == {"p1"}
Sessions == 1 .. MaxSessions

(* Program constants *)
RETRY_OVERFLOW_PERCENTAGE == 10
MaxPathLen == 20

----------------------------------------------------------------------------
(* Routes.  A path is kept by what the engine reads of it: the amount of   *)
(* its last hop, the sum of the fees of the other hops, its number of hops *)
(* and whether a non-final hop is our own node.                            *)

Path(amt, fee, len, loop) == [amt |-> amt, fee |-> fee, len |-> len, loop |-> loop]

PathA == Path(10, 1, 2, FALSE)
PathB == Path(1, 2, 2, FALSE)
PathLong == Path(1, 0, 21, FALSE)
PathLoop == Path(1, 0, 3, TRUE)
PathEmpty == Path(0, 0, 0, FALSE)
PathShort == Path(1, 0, 1, FALSE)

Route(paths, params) == [paths |-> paths, has_params |-> params]

NoRoute == Route(<<>>, FALSE)

\* the sum of the last-hop amounts of a sequence of paths (retry_amt_msat)
RECURSIVE SumAmt(_)
SumAmt(paths) ==
    IF paths = <<>> THEN 0 ELSE Head(paths).amt + SumAmt(Tail(paths))

\* Route::get_total_amount, of the router module: the sum of the last-hop amounts
get_total_amount(route) == SumAmt(route.paths)

----------------------------------------------------------------------------
(* PendingOutboundPayment.  One record shape for the four variants; a      *)
(* field a variant does not have holds its default.  strategy is          *)
(* NoStrategy for retry_strategy = None and n for Some(Retry::Attempts(n)).*)
(* probe stands for payment_hash: whether it is the probing cookie of the  *)
(* payment_id.                                                             *)

NoStrategy == -1

\* the ticks a Fulfilled payment without HTLCs is kept for (the constant is the channel
\* manager's)
IDEMPOTENCY_TIMEOUT_TICKS == 2

Vacant == [kind |-> "None", session_privs |-> {}, strategy |-> NoStrategy, count |-> 0,
           has_params |-> FALSE, has_secret |-> FALSE, pending_amt_msat |-> 0,
           pending_fee_msat |-> 0, total_msat |-> 0, timer_ticks_without_htlcs |-> 0,
           probe |-> FALSE]

Retryable(strategy, params, secret, total) ==
    [Vacant EXCEPT !.kind = "Retryable", !.strategy = strategy, !.has_params = params,
                   !.has_secret = secret, !.total_msat = total]

\* (mutant) the comparison off by one
RetryIsRetryableNow_OffByOne(max_retry_count, count) == max_retry_count >= count

\* Retry::is_retryable_now, for Retry::Attempts
RetryIsRetryableNow(max_retry_count, count) == max_retry_count > count

is_auto_retryable_now(p) ==
    /\ p.kind = "Retryable"
    /\ p.strategy # NoStrategy
    /\ RetryIsRetryableNow(p.strategy, p.count)

is_retryable_now(p) ==
    /\ p.kind = "Retryable"
    /\ \/ p.strategy = NoStrategy
       \/ RetryIsRetryableNow(p.strategy, p.count)

increment_attempts(p) ==
    IF p.kind = "Retryable" THEN [p EXCEPT !.count = @ + 1] ELSE p

\* (mutant) a Fulfilled payment is not recognised
is_fulfilled_Never(p) == FALSE

is_fulfilled(p) == p.kind = "Fulfilled"

abandoned(p) == p.kind = "Abandoned"

remaining_parts(p) == Cardinality(p.session_privs)

\* (mutant) mark_fulfilled leaves the variant as it is
mark_fulfilled_KeepsVariant(p) == p

\* (mutant) mark_fulfilled starts from an empty session set
mark_fulfilled_Empties(p) == [Vacant EXCEPT !.kind = "Fulfilled", !.probe = p.probe]

\* mark_fulfilled: the variant becomes Fulfilled, the session set is carried over
mark_fulfilled(p) ==
    [Vacant EXCEPT !.kind = "Fulfilled", !.session_privs = p.session_privs,
                   !.probe = p.probe]

\* (mutant) every variant can be abandoned
CanAbandon_Always(p) == TRUE

\* mark_abandoned: Err(()) for Legacy and Fulfilled, which are left as they are
CanAbandon(p) == p.kind \in {"Retryable", "Abandoned"}

\* (mutant) a Legacy or Fulfilled payment is turned into Abandoned as well
mark_abandoned_Always(p) ==
    [Vacant EXCEPT !.kind = "Abandoned", !.session_privs = p.session_privs,
                   !.probe = p.probe]

mark_abandoned(p) ==
    IF CanAbandon(p)
    THEN [Vacant EXCEPT !.kind = "Abandoned", !.session_privs = p.session_privs,
                        !.probe = p.probe]
    ELSE p

\* (mutant) remove reports a session it does not hold as removed
RemoveRes_Always(p, priv) == TRUE

\* remove: the returned flag
RemoveRes(p, priv) == priv \in p.session_privs

\* (mutant) remove leaves the session in the set
remove_KeepsSession(p, priv, path) == p

\* (mutant) remove leaves pending_fee_msat as it is
remove_KeepsFee(p, priv, path) ==
    IF priv \notin p.session_privs THEN p
    ELSE IF p.kind = "Retryable"
         THEN [p EXCEPT !.session_privs = @ \ {priv},
                        !.pending_amt_msat = @ - path.amt]
         ELSE [p EXCEPT !.session_privs = @ \ {priv}]

\* remove: the payment afterwards
remove(p, priv, path) ==
    IF ~RemoveRes(p, priv) THEN p
    ELSE IF p.kind = "Retryable"
         THEN [p EXCEPT !.session_privs = @ \ {priv},
                        !.pending_amt_msat = @ - path.amt,
                        !.pending_fee_msat = @ - path.fee]
         ELSE [p EXCEPT !.session_privs = @ \ {priv}]

\* insert: the returned flag
InsertRes(p, priv) == p.kind \in {"Legacy", "Retryable"} /\ priv \notin p.session_privs

\* (mutant) insert counts the path again when the session is already in the set
insert_Recounts(p, priv, path) ==
    IF p.kind = "Retryable"
    THEN [p EXCEPT !.session_privs = @ \cup {priv},
                   !.pending_amt_msat = @ + path.amt,
                   !.pending_fee_msat = @ + path.fee]
    ELSE IF p.kind = "Legacy" THEN [p EXCEPT !.session_privs = @ \cup {priv}]
    ELSE p

\* insert: the payment afterwards
insert(p, priv, path) ==
    IF ~InsertRes(p, priv) THEN p
    ELSE IF p.kind = "Retryable"
         THEN [p EXCEPT !.session_privs = @ \cup {priv},
                        !.pending_amt_msat = @ + path.amt,
                        !.pending_fee_msat = @ + path.fee]
         ELSE [p EXCEPT !.session_privs = @ \cup {priv}]

\* the loop "for (path, session_priv_bytes) in paths.zip(privs) { payment.insert(..) }"
RECURSIVE InsertAll(_, _, _)
InsertAll(p, privs, paths) ==
    IF paths = <<>> THEN p
    ELSE InsertAll(insert(p, Head(privs), Head(paths)), Tail(privs), Tail(paths))

\* session_privs drawn from the entropy source for a route of n paths
FreshPrivs(n) == [k \in 1 .. n |-> nextPriv + k - 1]

----------------------------------------------------------------------------
(* Results of the send family.  A ParameterError is kept with the message  *)
(* that tells it from the others.                                          *)

ParameterErrors ==
    {"PE_InvoiceExpired", "PE_RouteNotFound", "PE_NoPaths", "PE_SecretRequired",
     "PE_Length0Path", "PE_RetryOverflow", "PE_Legacy", "PE_Completed", "PE_Abandoned",
     "PE_RetriesExhausted", "PE_NotFound", "PE_ProbeTooShort"}

\* what the validation in pay_route_internal can return
ValidationErrors == {"PE_NoPaths", "PE_SecretRequired", "PathParameterError"}

PathIsValid(path) == path.len >= 1 /\ path.len <= MaxPathLen /\ ~path.loop

\* pay_route_internal, the checks before the first dispatch: "ok" or the error
ValidateRoute(route, has_secret) ==
    IF Len(route.paths) < 1 THEN "PE_NoPaths"
    ELSE IF ~has_secret /\ Len(route.paths) > 1 THEN "PE_SecretRequired"
    ELSE IF \E k \in 1 .. Len(route.paths) : ~PathIsValid(route.paths[k])
         THEN "PathParameterError"
         ELSE "ok"

\* (mutant) the paths whose monitor update is in progress are counted as unsent
RECURSIVE UnsentAmt_NotOk(_, _)
UnsentAmt_NotOk(results, paths) ==
    IF results = <<>> THEN 0
    ELSE (IF Head(results) # "Ok" THEN Head(paths).amt ELSE 0)
         + UnsentAmt_NotOk(Tail(results), Tail(paths))

RECURSIVE UnsentAmt(_, _)
UnsentAmt(results, paths) ==
    IF results = <<>> THEN 0
    ELSE (IF Head(results) = "Err" THEN Head(paths).amt ELSE 0)
         + UnsentAmt(Tail(results), Tail(paths))

\* (mutant) MonitorUpdateInProgress counts as Ok and as nothing else
ClassifyResults_InProgressIsOk(results, route) ==
    LET has_ok == \E k \in 1 .. Len(results) : results[k] \in {"Ok", "MonitorUpdateInProgress"}
        has_err == \E k \in 1 .. Len(results) : results[k] = "Err"
    IN  IF has_err /\ has_ok
        THEN IF UnsentAmt(results, route.paths) # 0 /\ route.has_params
             THEN "PartialFailureRetry"
             ELSE "PartialFailureNoRetry"
        ELSE IF has_err THEN "AllFailedResendSafe"
        ELSE "Ok"

\* pay_route_internal, the classification of the per-path results
ClassifyResults(results, route) ==
    LET has_ok == \E k \in 1 .. Len(results) : results[k] \in {"Ok", "MonitorUpdateInProgress"}
        has_err == \E k \in 1 .. Len(results) : results[k] \in {"Err", "MonitorUpdateInProgress"}
        pending_amt_unsent == UnsentAmt(results, route.paths)
    IN  IF has_err /\ has_ok
        THEN IF pending_amt_unsent # 0 /\ route.has_params
             THEN "PartialFailureRetry"
             ELSE "PartialFailureNoRetry"
        ELSE IF has_err THEN "AllFailedResendSafe"
        ELSE "Ok"

\* (mutant) the PartialFailure arm returns the result of its retry
ArmResult_PassThrough(tag, retry_res) ==
    IF tag = "A" /\ retry_res = "PE_RetriesExhausted" THEN "AllFailedResendSafe"
    ELSE retry_res

\* pay_internal, what a waiting invocation makes of the result of the retry it started:
\* tag "A" is the AllFailedResendSafe arm, tag "P" the PartialFailure arm
ArmResult(tag, retry_res) ==
    IF tag = "A"
    THEN IF retry_res = "PE_RetriesExhausted" THEN "AllFailedResendSafe" ELSE retry_res
    ELSE "Ok"

\* the result reaching the caller of the outermost pay_internal
RECURSIVE Unwind(_, _)
Unwind(stack, res) ==
    IF stack = <<>> THEN res
    ELSE Unwind(Tail(stack), ArmResult(Head(stack), res))

\* (mutant) the 10% allowance is not checked
RetryCheck_NoOverflow(p, route) ==
    IF \E k \in 1 .. Len(route.paths) : route.paths[k].len = 0 THEN "PE_Length0Path"
    ELSE IF p.kind = "None" THEN "PE_NotFound"
    ELSE IF p.kind = "Legacy" THEN "PE_Legacy"
    ELSE IF p.kind = "Fulfilled" THEN "PE_Completed"
    ELSE IF p.kind = "Abandoned" THEN "PE_Abandoned"
    ELSE IF ~is_retryable_now(p) THEN "PE_RetriesExhausted"
    ELSE "ok"

\* (mutant) an Abandoned payment is retried like a Retryable one
RetryCheck_AllowsAbandoned(p, route) ==
    IF \E k \in 1 .. Len(route.paths) : route.paths[k].len = 0 THEN "PE_Length0Path"
    ELSE IF p.kind = "None" THEN "PE_NotFound"
    ELSE IF p.kind = "Legacy" THEN "PE_Legacy"
    ELSE IF p.kind = "Fulfilled" THEN "PE_Completed"
    ELSE IF p.kind = "Abandoned" THEN "ok"
    ELSE IF SumAmt(route.paths) + p.pending_amt_msat
              > (p.total_msat * (100 + RETRY_OVERFLOW_PERCENTAGE)) \div 100
         THEN "PE_RetryOverflow"
    ELSE IF ~is_retryable_now(p) THEN "PE_RetriesExhausted"
    ELSE "ok"

\* (mutant) a Legacy payment is reported as not found
RetryCheck_LegacyNotFound(p, route) ==
    IF \E k \in 1 .. Len(route.paths) : route.paths[k].len = 0 THEN "PE_Length0Path"
    ELSE IF p.kind \in {"None", "Legacy"} THEN "PE_NotFound"
    ELSE IF p.kind = "Fulfilled" THEN "PE_Completed"
    ELSE IF p.kind = "Abandoned" THEN "PE_Abandoned"
    ELSE IF SumAmt(route.paths) + p.pending_amt_msat
              > (p.total_msat * (100 + RETRY_OVERFLOW_PERCENTAGE)) \div 100
         THEN "PE_RetryOverflow"
    ELSE IF ~is_retryable_now(p) THEN "PE_RetriesExhausted"
    ELSE "ok"

\* retry_payment_with_route, the checks made on the payment: "ok" or the error
RetryCheck(p, route) ==
    IF \E k \in 1 .. Len(route.paths) : route.paths[k].len = 0 THEN "PE_Length0Path"
    ELSE IF p.kind = "None" THEN "PE_NotFound"
    ELSE IF p.kind = "Legacy" THEN "PE_Legacy"
    ELSE IF p.kind = "Fulfilled" THEN "PE_Completed"
    ELSE IF p.kind = "Abandoned" THEN "PE_Abandoned"
    ELSE IF SumAmt(route.paths) + p.pending_amt_msat
              > (p.total_msat * (100 + RETRY_OVERFLOW_PERCENTAGE)) \div 100
         THEN "PE_RetryOverflow"
    ELSE IF ~is_retryable_now(p) THEN "PE_RetriesExhausted"
    ELSE "ok"

----------------------------------------------------------------------------
(* Inputs.  env names what the callers, the router and the dispatch callback of *)
(* a specification can hand to the engine.                                      *)

Inputs(router, user, strategies, results) ==
    [router |-> router, user |-> user, strategies |-> strategies, results |-> results,
     probes |-> {PathB, PathShort}]

\* per-path results of send_payment_along_path: Ok, Err(MonitorUpdateInProgress) and
\* any other Err
PathResults == {"Ok", "MonitorUpdateInProgress", "Err"}

\* Router::find_route sets payment_params on the routes it returns
RouterRoute(paths) == Route(paths, TRUE)

\* one caller at a time: every shape of route
SeqInputs ==
    Inputs({RouterRoute(ps) : ps \in {<<PathA>>, <<PathB>>, <<PathA, PathB>>}},
           {Route(ps, TRUE) : ps \in {<<>>, <<PathA>>, <<PathB>>, <<PathA, PathB>>,
                                      <<PathLong>>, <<PathB, PathLoop>>, <<PathEmpty>>}}
               \cup {Route(<<PathA, PathB>>, FALSE)},
           0 .. MaxAttempts,
           PathResults)

\* concurrent callers: single-path routes
ConcInputs ==
    Inputs({RouterRoute(<<PathA>>), RouterRoute(<<PathB>>)},
           {Route(<<PathA>>, TRUE), Route(<<PathB>>, TRUE)},
           0 .. MaxAttempts,
           PathResults)

----------------------------------------------------------------------------
(* Threads *)

NoPid == "none"

\* recv_value_msat: None
NoValue == -1

Idle == [op |-> "idle", pc |-> "idle", pid |-> NoPid, initial |-> FALSE,
         strat |-> NoStrategy, secret |-> FALSE, route |-> NoRoute, privs |-> <<>>,
         i |-> 0, results |-> <<>>, stack |-> <<>>, res |-> "none", evs |-> <<>>,
         call_present |-> FALSE, add_present |-> "na", committed |-> FALSE,
         first_res |-> "none", retry_seen |-> "na", was |-> Vacant, ignorable |-> FALSE,
         registry |-> <<>>, quiet_was |-> 0, final_value_msat |-> 0,
         plan |-> <<>>, at |-> 0, expiry |-> "na", recv_value_msat |-> NoValue,
         priv |-> 0, payment_retryable |-> FALSE]

\* operations that go through pay_internal
PayInternalOps == {"send_payment", "check_retry_payments"}

\* operations that end with remove_outbound_if_all_failed
CleanupOps == {"send_payment", "send_payment_with_route", "send_probe"}

SendOps == {"send_payment", "send_payment_with_route"}

Quiet(l) == l.pc = "idle"

\* the operation has its result: what is left is remove_outbound_if_all_failed, or
\* the next round of the loop of check_retry_payments.  A direct caller of
\* pay_route_internal returns with the route, the sessions and the per-path results
\* of its dispatch still in its locals
Returned(l, res) ==
    LET r0 == [l EXCEPT !.res = res, !.i = 0, !.stack = <<>>, !.initial = FALSE,
                        !.strat = NoStrategy, !.secret = FALSE]
        r == IF l.op \in PayInternalOps
             THEN [r0 EXCEPT !.route = NoRoute, !.privs = <<>>, !.results = <<>>,
                             !.final_value_msat = 0]
             ELSE r0
    IN  IF l.op = "check_retry_payments"
        THEN [Idle EXCEPT !.op = l.op, !.pc = "scan"]
        ELSE IF l.op \in CleanupOps /\ res = "AllFailedResendSafe"
        THEN [r EXCEPT !.pc = "cleanup"]
        ELSE [r EXCEPT !.pc = "done"]

\* pay_internal returns early (the ? operator and the returns before the match)
ReturnEarly(l, res) == Returned(l, Unwind(l.stack, res))

\* pay_internal, the match on the result of its dispatch: start a retry (a nested
\* pay_internal) or return
MatchResult(l, res) ==
    LET again(tag) == [l EXCEPT !.pc = "pay", !.initial = FALSE,
                                !.stack = <<tag>> \o l.stack,
                                !.route = NoRoute, !.privs = <<>>, !.i = 0,
                                !.results = <<>>, !.final_value_msat = 0,
                                !.expiry = "na"]
    IN  IF res = "AllFailedResendSafe" THEN again("A")
        ELSE IF res = "PartialFailureRetry" THEN again("P")
        ELSE IF res = "PartialFailureNoRetry" THEN Returned(l, Unwind(l.stack, "Ok"))
        ELSE Returned(l, Unwind(l.stack, res))

\* the result of pay_route_internal or retry_payment_with_route reaches its caller
Answer(l, res) ==
    IF l.op \in PayInternalOps THEN MatchResult(l, res) ELSE Returned(l, res)

\* pay_route_internal up to its first dispatch, for a route whose sessions are
\* registered.  recv_value_msat is kept as the call received it: the debug assertion
\* that compares it with the sum of the last-hop amounts is compiled in debug builds
\* only, and in every build the value then replaces that sum
StartDispatch(l, route, privs, recv_value_msat) ==
    LET v == ValidateRoute(route, l.secret)
    IN  IF v # "ok" THEN Answer(l, v)
        ELSE [l EXCEPT !.pc = "dispatch", !.route = route, !.privs = privs, !.i = 1,
                       !.results = <<>>, !.recv_value_msat = recv_value_msat]

----------------------------------------------------------------------------
(* State *)

\* path_events counts the path-resolution events pushed for the session
NoHtlc == [pid |-> NoPid, path |-> PathEmpty, params |-> FALSE, probe |-> FALSE,
           st |-> "unused", path_events |-> 0]

NoHist == [sent |-> 0, failed |-> 0, quiet |-> 0]

Init ==
    /\ pending = [pid \in PaymentIds |-> Vacant]
    /\ events = <<>>
    /\ htlcs = [s \in Sessions |-> NoHtlc]
    /\ nextPriv = 1
    /\ th = [t \in Threads |-> Idle]
    /\ hist = [pid \in PaymentIds |-> NoHist]
    /\ poisoned = FALSE

Present(pid) == pending[pid].kind # "None"

\* the HTLCs of a payment that are committed and not yet resolved
Outstanding(pid) == {s \in Sessions : htlcs[s].pid = pid /\ htlcs[s].st = "inflight"}

\* the HTLC of a session is resolved, or was never sent: its path is read no more
Settled(priv, st) ==
    [htlcs EXCEPT ![priv] = [NoHtlc EXCEPT !.pid = htlcs[priv].pid, !.st = st,
                                           !.path_events = htlcs[priv].path_events]]

\* the sessions of a route are recorded with the path each was drawn for
Registered(pid, route, privs, probe) ==
    [s \in Sessions |->
        IF \E k \in 1 .. Len(privs) : privs[k] = s
        THEN [pid |-> pid,
              path |-> route.paths[CHOOSE k \in 1 .. Len(privs) : privs[k] = s],
              params |-> route.has_params,
              probe |-> probe,
              st |-> "registered",
              path_events |-> 0]
        ELSE htlcs[s]]

----------------------------------------------------------------------------
(* add_new_pending_payment *)

\* insert panics on a path without hops (path.last().expect), with the mutex held
InsertPanics(route) == \E k \in 1 .. Len(route.paths) : route.paths[k].len = 0

\* the entry such a panic leaves: the session of the path without hops is in the set,
\* its amounts were never added, the later paths were never reached
RECURSIVE InsertUntilPanic(_, _, _)
InsertUntilPanic(p, privs, paths) ==
    IF paths = <<>> THEN p
    ELSE IF Head(paths).len = 0
         THEN [p EXCEPT !.session_privs = @ \cup {Head(privs)}]
         ELSE InsertUntilPanic(insert(p, Head(privs), Head(paths)), Tail(privs), Tail(paths))

\* the new entry
NewPayment(route, privs, strategy, params, secret, probe) ==
    InsertAll([Retryable(strategy, params, secret, get_total_amount(route))
                  EXCEPT !.probe = probe],
              privs, route.paths)

\* (mutant) an occupied entry is overwritten
IsDuplicate_Never(pid) == FALSE

\* Occupied => Err(DuplicatePayment)
IsDuplicate(pid) == Present(pid)

\* the step of thread t that runs add_new_pending_payment and, when it succeeds,
\* pay_route_internal up to the first dispatch
AddNewPendingPayment(t, l, route, strategy, params) ==
    LET privs == FreshPrivs(Len(route.paths))
        probe == l.op = "send_probe"
        l1 == [l EXCEPT !.add_present = IF Present(l.pid) THEN "present" ELSE "absent",
                        !.quiet_was = hist[l.pid].quiet]
    IN  /\ nextPriv + Len(route.paths) - 1 <= MaxSessions
        /\ IF IsDuplicate(l.pid)
           THEN /\ th' = [th EXCEPT ![t] = ReturnEarly(l1, "DuplicatePayment")]
                /\ UNCHANGED <<pending, htlcs, nextPriv, hist, poisoned>>
           ELSE IF InsertPanics(route)
           THEN /\ poisoned' = TRUE
                /\ th' = [th EXCEPT ![t] = [l1 EXCEPT !.pc = "panicked"]]
                /\ pending' = [pending EXCEPT ![l.pid] =
                                  InsertUntilPanic(
                                      [Retryable(strategy, params, l.secret,
                                                 get_total_amount(route))
                                          EXCEPT !.probe = probe],
                                      privs, route.paths)]
                /\ hist' = [hist EXCEPT ![l.pid] = NoHist]
                /\ UNCHANGED <<htlcs, nextPriv>>
           ELSE /\ pending' = [pending EXCEPT ![l.pid] =
                                  NewPayment(route, privs, strategy, params, l.secret,
                                             probe)]
                /\ htlcs' = Registered(l.pid, route, privs, probe)
                /\ nextPriv' = nextPriv + Len(route.paths)
                /\ hist' = [hist EXCEPT ![l.pid] = NoHist]
                /\ th' = [th EXCEPT ![t] = StartDispatch(l1, route, privs, NoValue)]
                /\ UNCHANGED poisoned
        /\ UNCHANGED events

----------------------------------------------------------------------------
(* send_payment and pay_internal *)

SendPayment(t, env) ==
    /\ Quiet(th[t])
    /\ \E pid \in PaymentIds, strategy \in env.strategies, secret \in BOOLEAN :
          th' = [th EXCEPT ![t] = [Idle EXCEPT !.op = "send_payment", !.pc = "pay",
                                               !.pid = pid, !.initial = TRUE,
                                               !.strat = strategy, !.secret = secret,
                                               !.call_present = Present(pid)]]
    /\ UNCHANGED <<pending, events, htlcs, nextPriv, hist, poisoned>>

\* the expiry time of the invoice when pay_internal is entered: not reached (or
\* absent), in the past, or in the past in a build without the std feature, where
\* the check is not compiled
ExpiryInputs == {"valid", "expired", "expired_nostd"}

\* (mutant) the expiry time is never looked at
has_expired_Never(expiry) == FALSE

\* #[cfg(feature = "std")] if has_expired(&route_params)
has_expired(expiry) == expiry = "expired"

\* the invocation of pay_internal, with the expiry input it met
Entered(l, expiry) == [l EXCEPT !.expiry = expiry]

\* has_expired(&route_params)
PayInternalExpired(t) ==
    /\ th[t].pc = "pay"
    /\ \E expiry \in ExpiryInputs :
          /\ has_expired(expiry)
          /\ th' = [th EXCEPT ![t] =
                       ReturnEarly(Entered(th[t], expiry), "PE_InvoiceExpired")]
    /\ UNCHANGED <<pending, events, htlcs, nextPriv, hist, poisoned>>

\* router.find_route returns an error
PayInternalNoRoute(t) ==
    /\ th[t].pc = "pay"
    /\ \E expiry \in ExpiryInputs :
          /\ ~has_expired(expiry)
          /\ th' = [th EXCEPT ![t] =
                       ReturnEarly(Entered(th[t], expiry), "PE_RouteNotFound")]
    /\ UNCHANGED <<pending, events, htlcs, nextPriv, hist, poisoned>>

\* the router returns a route; initial_send_info is Some
PayInternalSend(t, env) ==
    /\ th[t].pc = "pay"
    /\ th[t].initial
    /\ \E route \in env.router, expiry \in ExpiryInputs :
          /\ ~has_expired(expiry)
          /\ AddNewPendingPayment(t, Entered(th[t], expiry), route, th[t].strat, TRUE)

----------------------------------------------------------------------------
(* retry_payment_with_route *)

\* the critical section of retry_payment_with_route and, when the retry is accepted,
\* pay_route_internal up to the first dispatch
RetryLocked(t, l, route) ==
    LET p == pending[l.pid]
        check == RetryCheck(p, route)
        privs == FreshPrivs(Len(route.paths))
        l1 == [l EXCEPT !.retry_seen =
                  IF p.kind = "Retryable" /\ p.strategy # NoStrategy /\ p.count >= p.strategy
                  THEN "exhausted" ELSE "open",
                        !.was = p]
    IN  /\ nextPriv + Len(route.paths) - 1 <= MaxSessions
        /\ check = "ok" => p.count < MaxCount
        /\ IF check # "ok"
           THEN /\ th' = [th EXCEPT ![t] = Answer(l1, check)]
                /\ UNCHANGED <<pending, htlcs, nextPriv>>
           ELSE /\ pending' = [pending EXCEPT ![l.pid] =
                                  InsertAll(increment_attempts(p), privs, route.paths)]
                /\ htlcs' = Registered(l.pid, route, privs, p.probe)
                /\ nextPriv' = nextPriv + Len(route.paths)
                /\ th' = [th EXCEPT ![t] =
                             StartDispatch([l1 EXCEPT !.secret = p.has_secret], route, privs,
                                           p.total_msat)]
        /\ UNCHANGED <<events, hist, poisoned>>

\* the router returns a route; initial_send_info is None
PayInternalRetry(t, env) ==
    /\ th[t].pc = "pay"
    /\ ~th[t].initial
    /\ \E route \in env.router, expiry \in ExpiryInputs :
          /\ ~has_expired(expiry)
          /\ RetryLocked(t, Entered(th[t], expiry), route)

\* a manual retry
RetryPaymentWithRoute(t, env) ==
    /\ Quiet(th[t])
    /\ \E pid \in PaymentIds, route \in env.user :
          RetryLocked(t, [Idle EXCEPT !.op = "retry_payment_with_route", !.pid = pid,
                                      !.call_present = Present(pid), !.route = route],
                      route)

----------------------------------------------------------------------------
(* send_payment_with_route *)

SendPaymentWithRoute(t, env) ==
    /\ Quiet(th[t])
    /\ \E pid \in PaymentIds, route \in env.user, secret \in BOOLEAN :
          AddNewPendingPayment(t, [Idle EXCEPT !.op = "send_payment_with_route",
                                               !.pid = pid, !.secret = secret,
                                               !.call_present = Present(pid)],
                               route, NoStrategy, FALSE)

----------------------------------------------------------------------------
(* pay_route_internal, one round of the dispatch loop: send_payment_along_path for the *)
(* next path, and the removal of its session when the callback returns an error       *)

SendAlongPath(t, env) ==
    LET l == th[t]
        priv == l.privs[l.i]
        path == l.route.paths[l.i]
    IN  /\ l.pc = "dispatch"
        /\ \E r \in env.results :
              LET results == Append(l.results, r)
                  l1 == [l EXCEPT !.results = results, !.i = l.i + 1,
                                  !.committed = l.committed \/ r # "Err",
                                  !.expiry = "na", !.recv_value_msat = NoValue]
                  res == ClassifyResults(results, l.route)
                  l2 == [(IF l.first_res = "none" /\ l.initial
                          THEN [l1 EXCEPT !.first_res = res] ELSE l1)
                            EXCEPT !.final_value_msat =
                                IF res = "PartialFailureRetry"
                                THEN UnsentAmt(results, l.route.paths) ELSE 0]
              IN  /\ IF r = "Err"
                     THEN /\ pending' = [pending EXCEPT ![l.pid] = remove(@, priv, path)]
                          /\ htlcs' = Settled(priv, "unsent")
                     ELSE /\ htlcs' = [htlcs EXCEPT ![priv].st = "inflight"]
                          /\ UNCHANGED pending
                  /\ th' = [th EXCEPT ![t] =
                               IF l.i = Len(l.route.paths) THEN Answer(l2, res) ELSE l1]
        /\ UNCHANGED <<events, nextPriv, hist, poisoned>>

----------------------------------------------------------------------------
(* remove_outbound_if_all_failed, for an AllFailedResendSafe *)

RemoveOutboundIfAllFailed(t) ==
    /\ th[t].pc = "cleanup"
    /\ pending' = [pending EXCEPT ![th[t].pid] = Vacant]
    /\ th' = [th EXCEPT ![t].pc = "done"]
    /\ UNCHANGED <<events, htlcs, nextPriv, hist, poisoned>>

----------------------------------------------------------------------------
(* check_retry_payments *)

\* (mutant) the scan does not compare pending_amt_msat with total_msat
RetryCandidates_FullyPending ==
    {pid \in PaymentIds :
        /\ is_auto_retryable_now(pending[pid])
        /\ pending[pid].has_params}

\* the payments the scan of the map can pick
RetryCandidates ==
    {pid \in PaymentIds :
        /\ is_auto_retryable_now(pending[pid])
        /\ pending[pid].has_params
        /\ pending[pid].pending_amt_msat < pending[pid].total_msat}

\* one round of the loop: the scan under the mutex; with a candidate, pay_internal
\* follows after the mutex is dropped
CheckRetryPayments(t) ==
    /\ \/ Quiet(th[t])
       \/ th[t].pc = "scan"
    /\ IF RetryCandidates = {}
       THEN th' = [th EXCEPT ![t] = [Idle EXCEPT !.op = "check_retry_payments",
                                                 !.pc = "done"]]
       ELSE \E pid \in RetryCandidates :
               th' = [th EXCEPT ![t] =
                         [Idle EXCEPT !.op = "check_retry_payments",
                                      !.pc = "pay", !.pid = pid,
                                      !.final_value_msat =
                                          pending[pid].total_msat
                                              - pending[pid].pending_amt_msat]]
    /\ UNCHANGED <<pending, events, htlcs, nextPriv, hist, poisoned>>

----------------------------------------------------------------------------
(* Events *)

Event(type, pid, flag) == [type |-> type, pid |-> pid, flag |-> flag]

Room(n) == Len(events) + n <= MaxEvents

\* the user handles the pending events
ProcessEvents ==
    /\ events # <<>>
    /\ events' = <<>>
    /\ UNCHANGED <<pending, htlcs, nextPriv, th, hist, poisoned>>

----------------------------------------------------------------------------
(* fail_htlc *)

\* the events of one fail_htlc, in the order they are pushed: flag of PaymentPathFailed
\* is all_paths_failed
\* (mutant) the retry is announced before the failure of the path
FailEvents_RetryFirst(pid, all_paths_failed, full_failure, pending_retry) ==
    (IF pending_retry THEN <<Event("PendingHTLCsForwardable", NoPid, FALSE)>> ELSE <<>>)
    \o <<Event("PaymentPathFailed", pid, all_paths_failed)>>
    \o (IF full_failure THEN <<Event("PaymentFailed", pid, FALSE)>> ELSE <<>>)

FailEvents(pid, all_paths_failed, full_failure, pending_retry) ==
    <<Event("PaymentPathFailed", pid, all_paths_failed)>>
    \o (IF full_failure THEN <<Event("PaymentFailed", pid, FALSE)>> ELSE <<>>)
    \o (IF pending_retry THEN <<Event("PendingHTLCsForwardable", NoPid, FALSE)>> ELSE <<>>)

\* (mutant) a probe whose failure is retryable is reported as successful
ProbeEvents_Swapped(pid, payment_retryable, full_failure) ==
    <<Event(IF payment_retryable THEN "ProbeSuccessful" ELSE "ProbeFailed", pid, FALSE)>>
    \o (IF full_failure THEN <<Event("PaymentFailed", pid, FALSE)>> ELSE <<>>)

\* the events of one fail_htlc for a probe (payment_is_probe): no retry is proposed
ProbeEvents(pid, payment_retryable, full_failure) ==
    <<Event(IF payment_retryable THEN "ProbeFailed" ELSE "ProbeSuccessful", pid, FALSE)>>
    \o (IF full_failure THEN <<Event("PaymentFailed", pid, FALSE)>> ELSE <<>>)

\* the part of fail_htlc under the registry mutex, for the HTLC of session priv
FailHtlc(t) ==
    /\ Quiet(th[t])
    /\ \E priv \in Sessions, payment_retryable \in BOOLEAN :
          LET h == htlcs[priv]
              pid == h.pid
              p == pending[pid]
              p1 == remove(p, priv, h.path)
              attempts_remaining == is_auto_retryable_now(p1)
              has_retry == (p1.kind = "Retryable" /\ p1.has_params) \/ h.params
              all_paths_failed == remaining_parts(p1) = 0
              full_failure == all_paths_failed /\ abandoned(p1)
              pending_retry == payment_retryable /\ attempts_remaining /\ has_retry
              call == [Idle EXCEPT !.op = "fail_htlc", !.pid = pid, !.priv = priv,
                                   !.payment_retryable = payment_retryable,
                                   !.ignorable = \/ ~Present(pid)
                                                 \/ priv \notin p.session_privs
                                                 \/ p.kind = "Fulfilled"]
              ignored == [call EXCEPT !.pc = "done", !.res = "ignored", !.was = p]
          IN  /\ h.st \in {"inflight", "failed"}
              /\ htlcs' = Settled(priv, "failed")
              /\ IF ~Present(pid) \/ ~RemoveRes(p, priv)
                 THEN /\ th' = [th EXCEPT ![t] = ignored]
                      /\ UNCHANGED <<pending, hist>>
                 ELSE IF is_fulfilled(p1)
                 THEN /\ pending' = [pending EXCEPT ![pid] = p1]
                      /\ th' = [th EXCEPT ![t] = ignored]
                      /\ UNCHANGED hist
                 ELSE /\ pending' = [pending EXCEPT ![pid] = IF full_failure THEN Vacant ELSE p1]
                      /\ hist' = [hist EXCEPT ![pid].failed =
                                     IF full_failure THEN @ + 1 ELSE @]
                      /\ th' = [th EXCEPT ![t] =
                                   [call EXCEPT !.pc = "fail_push",
                                                !.evs =
                                                    IF h.probe
                                                    THEN ProbeEvents(pid, payment_retryable,
                                                                     full_failure)
                                                    ELSE FailEvents(pid, all_paths_failed,
                                                                    full_failure,
                                                                    pending_retry)]]
    /\ UNCHANGED <<events, nextPriv, poisoned>>

\* the part of fail_htlc under the events mutex
FailHtlcPush(t) ==
    /\ th[t].pc = "fail_push"
    /\ Room(Len(th[t].evs))
    /\ events' = events \o th[t].evs
    /\ htlcs' = [htlcs EXCEPT ![th[t].priv].path_events = @ + 1]
    /\ th' = [th EXCEPT ![t] = [th[t] EXCEPT !.pc = "done", !.res = "pushed"]]
    /\ UNCHANGED <<pending, nextPriv, hist, poisoned>>

----------------------------------------------------------------------------
(* claim_htlc: both mutexes are held for the whole call *)

ClaimHtlc(t) ==
    /\ Quiet(th[t])
    /\ \E priv \in Sessions, from_onchain \in BOOLEAN :
          LET h == htlcs[priv]
              pid == h.pid
              p == pending[pid]
              sent == Present(pid) /\ ~is_fulfilled(p)
              p1 == IF sent THEN mark_fulfilled(p) ELSE p
              path_ok == Present(pid) /\ from_onchain /\ RemoveRes(p1, priv)
              p2 == IF path_ok THEN remove(p1, priv, h.path) ELSE p1
              evs == (IF sent THEN <<Event("PaymentSent", pid, FALSE)>> ELSE <<>>)
                     \o (IF path_ok
                         THEN <<Event("PaymentPathSuccessful", pid, FALSE)>>
                         ELSE <<>>)
          IN  /\ h.st \in {"inflight", "claimed", "onchain"}
              /\ Room(Len(evs))
              /\ htlcs' = [Settled(priv, IF from_onchain \/ h.st = "onchain"
                                         THEN "onchain" ELSE "claimed")
                              EXCEPT ![priv].path_events = IF path_ok THEN @ + 1 ELSE @]
              /\ events' = events \o evs
              /\ IF Present(pid)
                 THEN /\ pending' = [pending EXCEPT ![pid] = p2]
                      /\ hist' = [hist EXCEPT ![pid].sent = IF sent THEN @ + 1 ELSE @]
                 ELSE UNCHANGED <<pending, hist>>
    /\ UNCHANGED <<nextPriv, th, poisoned>>

----------------------------------------------------------------------------
(* abandon_payment: the event is returned to the caller, res is what is returned *)

AbandonPayment(t) ==
    /\ Quiet(th[t])
    /\ \E pid \in PaymentIds :
          LET p == pending[pid]
              p1 == mark_abandoned(p)
              failed == Present(pid) /\ CanAbandon(p) /\ remaining_parts(p1) = 0
          IN  /\ pending' = [pending EXCEPT ![pid] = IF failed THEN Vacant ELSE p1]
              /\ hist' = [hist EXCEPT ![pid].failed = IF failed THEN @ + 1 ELSE @]
              /\ th' = [th EXCEPT ![t] =
                           [Idle EXCEPT !.op = "abandon_payment", !.pc = "done", !.pid = pid,
                                        !.res = IF failed THEN "PaymentFailed" ELSE "None",
                                        !.was = p]]
    /\ UNCHANGED <<events, htlcs, nextPriv, poisoned>>

----------------------------------------------------------------------------
(* remove_stale_resolved_payments: both mutexes are held for the whole call *)

\* the events the scan of the queue takes as a reference to the payment
RefersTo(ev, pid) ==
    /\ ev.type \in {"PaymentSent", "PaymentPathSuccessful", "PaymentPathFailed"}
    /\ ev.pid = pid

\* (mutant) the scan of the queue finds nothing
Referenced_Never(pid) == FALSE

Referenced(pid) == \E k \in 1 .. Len(events) : RefersTo(events[k], pid)

\* (mutant) the payment is dropped one tick early
TickRes_Early(p) == p.timer_ticks_without_htlcs + 1 < IDEMPOTENCY_TIMEOUT_TICKS

\* the payment has been silent for one more tick
TickRes(p) == p.timer_ticks_without_htlcs + 1 <= IDEMPOTENCY_TIMEOUT_TICKS

\* the closure of retain: the entry afterwards, Vacant when it is dropped
Retain(p, pid) ==
    IF p.kind # "Fulfilled" THEN p
    ELSE IF p.session_privs = {} /\ ~Referenced(pid)
         THEN IF TickRes(p)
              THEN [p EXCEPT !.timer_ticks_without_htlcs = @ + 1]
              ELSE Vacant
         ELSE [p EXCEPT !.timer_ticks_without_htlcs = 0]

\* ghost: the calls in a row that found the payment Fulfilled, without a session and
\* without a PaymentSent, PaymentPathSuccessful or PaymentPathFailed event of its id
QuietCalls(pid) ==
    LET p == pending[pid]
    IN  IF ~Present(pid) THEN hist[pid].quiet
        ELSE IF /\ p.kind = "Fulfilled"
                /\ p.session_privs = {}
                /\ \A k \in 1 .. Len(events) : ~RefersTo(events[k], pid)
             THEN IF hist[pid].quiet > IDEMPOTENCY_TIMEOUT_TICKS
                  THEN hist[pid].quiet ELSE hist[pid].quiet + 1
             ELSE 0

RemoveStaleResolvedPayments(t) ==
    /\ Quiet(th[t])
    /\ pending' = [pid \in PaymentIds |-> Retain(pending[pid], pid)]
    /\ hist' = [pid \in PaymentIds |-> [hist[pid] EXCEPT !.quiet = QuietCalls(pid)]]
    /\ th' = [th EXCEPT ![t] =
                 [Idle EXCEPT !.op = "remove_stale_resolved_payments", !.pc = "done",
                              !.registry = pending]]
    /\ UNCHANGED <<events, htlcs, nextPriv, poisoned>>

----------------------------------------------------------------------------
(* finalize_claims: both mutexes are held for the whole call *)

\* the loop over sources: the registry afterwards, the events pushed, the sessions
\* they were pushed for, and whether the assertion on is_fulfilled failed
RECURSIVE FinalizeSources(_, _)
FinalizeSources(reg, sources) ==
    IF sources = <<>> THEN [reg |-> reg, evs |-> <<>>, privs |-> {}, panic |-> FALSE]
    ELSE LET priv == Head(sources)
             pid == htlcs[priv].pid
             p == reg[pid]
         IN  IF p.kind = "None" THEN FinalizeSources(reg, Tail(sources))
             ELSE IF ~is_fulfilled(p)
                  THEN [reg |-> reg, evs |-> <<>>, privs |-> {}, panic |-> TRUE]
             ELSE LET rest == FinalizeSources(
                                  [reg EXCEPT ![pid] = remove(p, priv, PathEmpty)],
                                  Tail(sources))
                  IN  [rest EXCEPT !.evs =
                           (IF RemoveRes(p, priv)
                            THEN <<Event("PaymentPathSuccessful", pid, FALSE)>>
                            ELSE <<>>) \o @,
                                   !.privs =
                           IF RemoveRes(p, priv) THEN @ \cup {priv} ELSE @]

\* the sessions of a set, in increasing order
RECURSIVE InOrder(_)
InOrder(S) ==
    IF S = {} THEN <<>>
    ELSE LET m == CHOOSE x \in S : \A y \in S : x <= y
         IN  <<m>> \o InOrder(S \ {m})

\* sources are HTLCs that claim_htlc has seen claimed by the peer
FinalizeClaims(t) ==
    /\ Quiet(th[t])
    /\ \E S \in SUBSET {s \in Sessions : htlcs[s].st = "claimed"} :
          LET f == FinalizeSources(pending, InOrder(S))
          IN  /\ S # {}
              /\ Room(Len(f.evs))
              /\ pending' = f.reg
              /\ events' = events \o f.evs
              /\ htlcs' = [s \in Sessions |->
                              IF s \in S
                              THEN [htlcs[s] EXCEPT
                                       !.st = "finalized",
                                       !.path_events = IF s \in f.privs THEN @ + 1 ELSE @]
                              ELSE htlcs[s]]
              /\ poisoned' = f.panic
              /\ th' = [th EXCEPT ![t] =
                           [Idle EXCEPT !.op = "finalize_claims",
                                        !.pc = IF f.panic THEN "panicked" ELSE "done"]]
    /\ UNCHANGED <<nextPriv, hist>>

----------------------------------------------------------------------------
(* send_probe: the payment_id is drawn from the entropy source *)

MinProbeLen == 2

SendProbe(t, env) ==
    /\ Quiet(th[t])
    /\ \E pid \in PaymentIds, hops \in env.probes :
          LET l == [Idle EXCEPT !.op = "send_probe", !.pid = pid,
                                !.call_present = Present(pid)]
          IN  IF hops.len < MinProbeLen
              THEN /\ th' = [th EXCEPT ![t] = ReturnEarly(l, "PE_ProbeTooShort")]
                   /\ UNCHANGED <<pending, events, htlcs, nextPriv, hist, poisoned>>
              ELSE AddNewPendingPayment(t, l, Route(<<hops>>, FALSE), NoStrategy, FALSE)

----------------------------------------------------------------------------
(* The specification *)

\* the operation of thread t has returned
Finish(t) ==
    /\ th[t].pc = "done"
    /\ th' = [th EXCEPT ![t] = Idle]
    /\ UNCHANGED <<pending, events, htlcs, nextPriv, hist, poisoned>>

Returning == \E t \in Threads : th[t].pc = "done"

Step(t, env) ==
    \/ SendPayment(t, env)
    \/ PayInternalExpired(t)
    \/ PayInternalNoRoute(t)
    \/ PayInternalSend(t, env)
    \/ PayInternalRetry(t, env)
    \/ SendPaymentWithRoute(t, env)
    \/ RetryPaymentWithRoute(t, env)
    \/ SendAlongPath(t, env)
    \/ RemoveOutboundIfAllFailed(t)
    \/ CheckRetryPayments(t)
    \/ FailHtlc(t)
    \/ FailHtlcPush(t)
    \/ ClaimHtlc(t)
    \/ AbandonPayment(t)

\* a return is a step of its own, interleaved with nothing: what a thread does between
\* two calls is not the engine's
Run(threads, env) ==
    /\ ~poisoned
    /\ IF Returning
       THEN \E t \in threads : Finish(t)
       ELSE \/ \E t \in threads : Step(t, env)
            \/ ProcessEvents

\* the operations called from several threads at once
Next == Run(Threads, ConcInputs)

Spec == Init /\ [][Next]_vars

\* the operations called one at a time
NextSeq == Run({"t1"}, SeqInputs)

SpecSeq == Init /\ [][NextSeq]_vars

\* the same, with a caller that is not stopped in the middle of an operation
SpecSeqFair == Init /\ [][NextSeq]_vars /\ WF_vars(NextSeq)

\* the operations called one at a time by thread t1, while the channel layer and the
\* user deliver failures, claims and abandons from thread t2
Callbacks(t) ==
    \/ FailHtlc(t)
    \/ FailHtlcPush(t)
    \/ ClaimHtlc(t)
    \/ AbandonPayment(t)

NextCb ==
    /\ ~poisoned
    /\ IF Returning
       THEN \E t \in Threads : Finish(t)
       ELSE \/ Step("t1", SeqInputs)
            \/ Callbacks("t2")
            \/ ProcessEvents

SpecCb == Init /\ [][NextCb]_vars

----------------------------------------------------------------------------
(* A registry read back from disk: it can hold a Legacy payment, written by a *)
(* version without retries, with the HTLC of its session still in flight     *)

LegacyPayment == [Vacant EXCEPT !.kind = "Legacy", !.session_privs = {1}]

LegacyHtlc ==
    [pid |-> "p1", path |-> PathB, params |-> FALSE, probe |-> FALSE, st |-> "inflight",
     path_events |-> 0]

InitLoaded ==
    /\ \/ /\ pending = [pid \in PaymentIds |-> Vacant]
          /\ htlcs = [s \in Sessions |-> NoHtlc]
          /\ nextPriv = 1
       \/ /\ pending = [pid \in PaymentIds |-> LegacyPayment]
          /\ htlcs = [s \in Sessions |-> IF s = 1 THEN LegacyHtlc ELSE NoHtlc]
          /\ nextPriv = 2
    /\ events = <<>>
    /\ th = [t \in Threads |-> Idle]
    /\ hist = [pid \in PaymentIds |-> NoHist]
    /\ poisoned = FALSE

\* the operations of SpecCb on a registry read back from disk
SpecLoaded == InitLoaded /\ [][NextCb]_vars

----------------------------------------------------------------------------
(* The timer: thread t1 sends payments and probes and runs the timer tick and   *)
(* finalize_claims, while thread t2 delivers failures, claims and abandons      *)

TimerInputs ==
    Inputs({RouterRoute(<<PathB>>)}, {Route(<<PathB>>, TRUE)}, {0}, PathResults)

NextTimer ==
    /\ ~poisoned
    /\ IF Returning
       THEN \E t \in Threads : Finish(t)
       ELSE \/ SendPayment("t1", TimerInputs)
            \/ PayInternalExpired("t1")
            \/ PayInternalNoRoute("t1")
            \/ PayInternalSend("t1", TimerInputs)
            \/ PayInternalRetry("t1", TimerInputs)
            \/ SendPaymentWithRoute("t1", TimerInputs)
            \/ SendProbe("t1", TimerInputs)
            \/ SendAlongPath("t1", TimerInputs)
            \/ RemoveOutboundIfAllFailed("t1")
            \/ RemoveStaleResolvedPayments("t1")
            \/ FinalizeClaims("t1")
            \/ \E t \in Threads : Callbacks(t)
            \/ ProcessEvents

SpecTimer == Init /\ [][NextTimer]_vars

----------------------------------------------------------------------------
(* Deliveries: fail_htlc, claim_htlc and finalize_claims take the session from   *)
(* their caller, which can deliver the resolution of an HTLC again, with the     *)
(* same or with another outcome                                                  *)

DeliveryInputs ==
    Inputs({RouterRoute(<<PathB>>), RouterRoute(<<PathA, PathB>>)},
           {Route(<<PathA, PathB>>, TRUE)},
           0 .. MaxAttempts, PathResults)

Redeliver ==
    /\ \E priv \in Sessions :
          /\ htlcs[priv].st \in {"failed", "claimed", "onchain", "finalized"}
          /\ htlcs' = [htlcs EXCEPT ![priv].st = "inflight"]
    /\ UNCHANGED <<pending, events, nextPriv, th, hist, poisoned>>

NextDeliveries ==
    /\ ~poisoned
    /\ IF Returning
       THEN \E t \in Threads : Finish(t)
       ELSE \/ SendPayment("t1", DeliveryInputs)
            \/ PayInternalExpired("t1")
            \/ PayInternalNoRoute("t1")
            \/ PayInternalSend("t1", DeliveryInputs)
            \/ PayInternalRetry("t1", DeliveryInputs)
            \/ SendAlongPath("t1", DeliveryInputs)
            \/ RemoveOutboundIfAllFailed("t1")
            \/ CheckRetryPayments("t1")
            \/ Callbacks("t2")
            \/ FinalizeClaims("t2")
            \/ Redeliver
            \/ ProcessEvents

SpecDeliveries == Init /\ [][NextDeliveries]_vars

----------------------------------------------------------------------------
(* Failures: the registry is read back with an Abandoned payment whose HTLCs are *)
(* in flight, and the channel layer fails them from two threads                  *)

AbandonedPayment(S) == [Vacant EXCEPT !.kind = "Abandoned", !.session_privs = S]

\* an HTLC of the payment, in flight
AbandonedHtlc == LegacyHtlc

InitFailures ==
    /\ \E n \in 2 .. MaxSessions :
          /\ pending = [pid \in PaymentIds |-> AbandonedPayment(1 .. n)]
          /\ htlcs = [s \in Sessions |-> IF s <= n THEN AbandonedHtlc ELSE NoHtlc]
          /\ nextPriv = n + 1
    /\ events = <<>>
    /\ th = [t \in Threads |-> Idle]
    /\ hist = [pid \in PaymentIds |-> NoHist]
    /\ poisoned = FALSE

NextFailures ==
    IF Returning
    THEN \E t \in Threads : Finish(t)
    ELSE \/ \E t \in Threads : FailHtlc(t) \/ FailHtlcPush(t)
         \/ ProcessEvents

SpecFailures == InitFailures /\ [][NextFailures]_vars

----------------------------------------------------------------------------
(* Claims: both threads send with a retry strategy and run the retries of the   *)
(* background processor, while the channel layer delivers the claims of the     *)
(* peer and, once the claim is irrevocable, finalize_claims                     *)

ClaimInputs ==
    Inputs({RouterRoute(<<PathA>>), RouterRoute(<<PathB>>)}, {Route(<<PathB>>, TRUE)},
           {1}, {"Ok", "Err"})

NextClaims ==
    /\ ~poisoned
    /\ IF Returning
       THEN \E t \in Threads : Finish(t)
       ELSE \E t \in Threads :
               \/ SendPayment(t, ClaimInputs)
               \/ PayInternalExpired(t)
               \/ PayInternalNoRoute(t)
               \/ PayInternalSend(t, ClaimInputs)
               \/ PayInternalRetry(t, ClaimInputs)
               \/ SendAlongPath(t, ClaimInputs)
               \/ RemoveOutboundIfAllFailed(t)
               \/ CheckRetryPayments(t)
               \/ ClaimHtlc(t)
               \/ FinalizeClaims(t)
               \/ ProcessEvents

SpecClaims == Init /\ [][NextClaims]_vars

----------------------------------------------------------------------------
(* Two runs of check_retry_payments.  Both start from the same registry, with   *)
(* two payment ids, and are given the same entropy stream, the same route from  *)
(* the router and the same stream of dispatch results.  The registry is a       *)
(* HashMap: the order in which the scan meets the payments is not fixed by the  *)
(* contents of the map, so a scan takes any of the candidates.  In this         *)
(* specification th holds the state of each run.                                *)

Runs == {"run1", "run2"}

ScanIds == {"p1", "p2"}

\* payments a registry holds when the retries are checked: none, one whose paths
\* have all failed, with and without attempts left, with and without payment_params
ScanPayments ==
    {Vacant}
    \cup {Retryable(n, params, FALSE, path.amt) :
             n \in 1 .. MaxAttempts, params \in BOOLEAN, path \in {PathA, PathB}}
    \cup {[Retryable(n, TRUE, FALSE, PathB.amt) EXCEPT !.count = n] :
             n \in 1 .. MaxAttempts}

\* no run dispatches more often than this
ScanLen == Cardinality(ScanIds) * MaxAttempts

\* the payments the scan of a registry can pick
Candidates(reg) ==
    {pid \in DOMAIN reg :
        /\ is_auto_retryable_now(reg[pid])
        /\ reg[pid].has_params
        /\ reg[pid].pending_amt_msat < reg[pid].total_msat}

\* pay_internal without initial_send_info, for a single-path route, run to its end:
\* the session is the next of the entropy stream, the result of the dispatch the
\* next of the stream of results; after AllFailedResendSafe pay_internal retries
RECURSIVE PayRetry(_, _)
PayRetry(s, pid) ==
    LET p == s.reg[pid]
        priv == s.next
        path == s.route.paths[1]
        p1 == insert(increment_attempts(p), priv, path)
        failed == s.results[priv] = "Err"
        s1 == [s EXCEPT !.next = @ + 1,
                        !.reg[pid] = IF failed THEN remove(p1, priv, path) ELSE p1]
    IN  IF RetryCheck(p, s.route) # "ok" THEN s
        ELSE IF failed THEN PayRetry(s1, pid)
        ELSE s1

InitScan ==
    /\ pending = [pid \in PaymentIds |-> Vacant]
    /\ events = <<>>
    /\ htlcs = [s \in Sessions |-> NoHtlc]
    /\ nextPriv = 1
    /\ hist = [pid \in PaymentIds |-> NoHist]
    /\ poisoned = FALSE
    /\ \E reg \in [ScanIds -> ScanPayments],
          results \in [1 .. ScanLen -> {"Ok", "Err"}],
          path \in {PathA, PathB} :
          th = [r \in Runs |->
                   [reg |-> reg, next |-> 1, results |-> results,
                    route |-> RouterRoute(<<path>>), pc |-> "scan"]]

\* one round of the loop that finds a payment to retry
ScanRetry(r) ==
    /\ th[r].pc = "scan"
    /\ \E pid \in Candidates(th[r].reg) :
          th' = [th EXCEPT ![r] = PayRetry(th[r], pid)]
    /\ UNCHANGED <<pending, events, htlcs, nextPriv, hist, poisoned>>

\* the round that finds none: break
ScanBreak(r) ==
    /\ th[r].pc = "scan"
    /\ Candidates(th[r].reg) = {}
    /\ th' = [th EXCEPT ![r].pc = "returned"]
    /\ UNCHANGED <<pending, events, htlcs, nextPriv, hist, poisoned>>

NextScan == \E r \in Runs : ScanRetry(r) \/ ScanBreak(r)

SpecScan == InitScan /\ [][NextScan]_vars

----------------------------------------------------------------------------
(* The two mutexes.  An operation is kept by the acquisitions and releases it   *)
(* makes, in program order: plan is that sequence and at the number of its      *)
(* steps the thread has made.  Mutex::lock blocks while the mutex is held, by   *)
(* any thread, the caller included.                                             *)

Lock(m) == [act |-> "lock", mutex |-> m]
Unlock(m) == [act |-> "unlock", mutex |-> m]

\* pending_outbound_payments is locked, used and released
RegistrySection == <<Lock("registry"), Unlock("registry")>>

RECURSIVE Sections(_)
Sections(k) == IF k = 0 THEN <<>> ELSE RegistrySection \o Sections(k - 1)

\* claim_htlc, finalize_claims and remove_stale_resolved_payments: both guards live to
\* the end of the function and are dropped in the reverse order of their declaration
BothMutexesPlan ==
    <<Lock("registry"), Lock("events"), Unlock("events"), Unlock("registry")>>

\* (mutant) fail_htlc pushes its events before it drops the registry guard
FailHtlcPlans_NoDrop ==
    {RegistrySection,
     <<Lock("events"), Lock("registry"), Unlock("registry"), Unlock("events")>>}

\* fail_htlc: the registry guard is dropped (or the function returns) before
\* pending_events is locked
FailHtlcPlans ==
    {RegistrySection,
     RegistrySection \o <<Lock("events"), Unlock("events")>>}

\* the sends and the retries lock the registry only: once to register, once for each
\* path the dispatch callback refuses, once in remove_outbound_if_all_failed, once for
\* each scan of check_retry_payments
SendPlans == {Sections(k) : k \in 1 .. MaxSessions + 2}

LockOps ==
    {"claim_htlc", "finalize_claims", "remove_stale_resolved_payments", "fail_htlc",
     "abandon_payment", "send_payment", "send_payment_with_route", "send_probe",
     "retry_payment_with_route", "check_retry_payments"}

LockPlans(op) ==
    IF op \in {"claim_htlc", "finalize_claims", "remove_stale_resolved_payments"}
    THEN {BothMutexesPlan}
    ELSE IF op = "fail_htlc" THEN FailHtlcPlans
    ELSE IF op = "abandon_payment" THEN {RegistrySection}
    ELSE SendPlans

\* the mutexes a thread holds after the first n steps of a plan
Held(plan, n) ==
    {m \in {"registry", "events"} :
        \E i \in 1 .. n :
            /\ plan[i] = Lock(m)
            /\ \A j \in (i + 1) .. n : plan[j] # Unlock(m)}

Holds(t, m) == m \in Held(th[t].plan, th[t].at)

Locking(t) == th[t].pc = "locking"

\* the next step of the plan of thread t
NextStep(t) == th[t].plan[th[t].at + 1]

Ahead(t) == Locking(t) /\ th[t].at < Len(th[t].plan)

CallOperation(t) ==
    /\ Quiet(th[t])
    /\ \E op \in LockOps :
          \E plan \in LockPlans(op) :
             th' = [th EXCEPT ![t] =
                       [Idle EXCEPT !.op = op, !.pc = "locking", !.plan = plan]]
    /\ UNCHANGED <<pending, events, htlcs, nextPriv, hist, poisoned>>

Acquire(t) ==
    /\ Ahead(t)
    /\ NextStep(t).act = "lock"
    /\ \A u \in Threads : ~Holds(u, NextStep(t).mutex)
    /\ th' = [th EXCEPT ![t].at = @ + 1]
    /\ UNCHANGED <<pending, events, htlcs, nextPriv, hist, poisoned>>

Release(t) ==
    /\ Ahead(t)
    /\ NextStep(t).act = "unlock"
    /\ th' = [th EXCEPT ![t].at = @ + 1]
    /\ UNCHANGED <<pending, events, htlcs, nextPriv, hist, poisoned>>

ReturnOperation(t) ==
    /\ Locking(t)
    /\ th[t].at = Len(th[t].plan)
    /\ th' = [th EXCEPT ![t] = Idle]
    /\ UNCHANGED <<pending, events, htlcs, nextPriv, hist, poisoned>>

NextLocks ==
    \E t \in Threads :
        \/ CallOperation(t)
        \/ Acquire(t)
        \/ Release(t)
        \/ ReturnOperation(t)

SpecLocks == Init /\ [][NextLocks]_vars

----------------------------------------------------------------------------
(* Properties *)

Done(t) == th[t].pc = "done"

AllQuiet == \A t \in Threads : Quiet(th[t])

\* C1: in every reachable state a Retryable payment has
\* pending_amt_msat <= total_msat * 1.10
C1_PendingAmtWithinAllowance ==
    \A pid \in PaymentIds :
        pending[pid].kind = "Retryable" =>
            pending[pid].pending_amt_msat * 100
                <= pending[pid].total_msat * (100 + RETRY_OVERFLOW_PERCENTAGE)

\* a retry was accepted that put the pending amount over total_msat, within the allowance
C1_Witness ==
    \E pid \in PaymentIds :
        /\ pending[pid].kind = "Retryable"
        /\ pending[pid].count >= 1
        /\ pending[pid].pending_amt_msat > pending[pid].total_msat

C3_NoStateOnValidationError ==
    \A t \in Threads :
        (Done(t) /\ th[t].op \in SendOps /\ ~th[t].call_present
                 /\ th[t].res \in ValidationErrors) =>
            ~Present(th[t].pid)

\* C4: when send_payment returns after an initial dispatch in which every path failed
\* and no retry of the call committed an HTLC, the payment is gone from the registry
C4_RemovedWhenDispatchFullyFails ==
    \A t \in Threads :
        (Done(t) /\ th[t].op = "send_payment" /\ th[t].first_res = "AllFailedResendSafe"
                 /\ ~th[t].committed) =>
            ~Present(th[t].pid)

\* C5: when a send returns AllFailedResendSafe, no HTLC of the payment is committed
\* and the payment is gone from the registry
C5_AllFailedMeansNothingCommitted ==
    \A t \in Threads :
        (Done(t) /\ th[t].op \in SendOps /\ th[t].res = "AllFailedResendSafe") =>
            /\ Outstanding(th[t].pid) = {}
            /\ ~Present(th[t].pid)

\* C6: send_payment returns Ok(()) whenever a path of its initial dispatch or of one
\* of its internal retries returned Ok or MonitorUpdateInProgress
C6_OkOnceCommitted ==
    \A t \in Threads :
        (th[t].op = "send_payment" /\ th[t].pc \in {"done", "cleanup"} /\ th[t].committed) =>
            th[t].res = "Ok"

\* send_payment returned Ok(()) after a partial failure whose retry was attempted
C6_Witness ==
    \E t \in Threads :
        /\ Done(t) /\ th[t].op = "send_payment" /\ th[t].committed
        /\ th[t].first_res = "PartialFailureRetry"
        /\ th[t].res = "Ok"

\* C7 as claimed: with Retry::Attempts(n) attempts.count never exceeds n, a payment
\* with count = n is no candidate of check_retry_payments, and a manual retry of it is
\* rejected with "Retries exhausted"
C7_ExhaustedRejectedAsExhausted ==
    /\ \A pid \in PaymentIds :
          (pending[pid].kind = "Retryable" /\ pending[pid].strategy # NoStrategy) =>
              /\ pending[pid].count <= pending[pid].strategy
              /\ pending[pid].count = pending[pid].strategy => pid \notin RetryCandidates
    /\ \A t \in Threads :
          (Done(t) /\ th[t].op = "retry_payment_with_route" /\ th[t].retry_seen = "exhausted") =>
              th[t].res = "PE_RetriesExhausted"

\* C7 as amended: with Retry::Attempts(n) attempts.count never exceeds n, a payment
\* with count = n is no candidate of check_retry_payments, and a manual retry of it is
\* rejected with a ParameterError: "Retries exhausted", unless the route has a path
\* without hops or would put the pending amount more than 10% over total_msat, which
\* are checked first and rejected with their own message
C7_AttemptsBounded ==
    /\ \A pid \in PaymentIds :
          (pending[pid].kind = "Retryable" /\ pending[pid].strategy # NoStrategy) =>
              /\ pending[pid].count <= pending[pid].strategy
              /\ pending[pid].count = pending[pid].strategy => pid \notin RetryCandidates
    /\ \A t \in Threads :
          (Done(t) /\ th[t].op = "retry_payment_with_route" /\ th[t].retry_seen = "exhausted") =>
              th[t].res \in {"PE_RetriesExhausted", "PE_RetryOverflow", "PE_Length0Path"}

\* a manual retry of a payment whose attempts are used up was rejected
C7_Witness ==
    \E t \in Threads :
        /\ Done(t) /\ th[t].op = "retry_payment_with_route"
        /\ th[t].retry_seen = "exhausted" /\ th[t].res = "PE_RetriesExhausted"
        /\ pending[th[t].pid].strategy >= 1
        /\ pending[th[t].pid].count = pending[th[t].pid].strategy

\* C8: for a registry entry exactly one PaymentSent is pushed, by the claim_htlc that
\* makes it Fulfilled; later claims of it push none, nor do claims of an absent payment
C8_OnePaymentSent ==
    \A pid \in PaymentIds :
        /\ hist[pid].sent <= 1
        /\ Present(pid) => (pending[pid].kind = "Fulfilled" <=> hist[pid].sent = 1)

\* two sessions of one payment were claimed
C8_Witness ==
    \E pid \in PaymentIds :
        /\ pending[pid].kind = "Fulfilled" /\ hist[pid].sent = 1
        /\ Cardinality({s \in Sessions : htlcs[s].pid = pid
                                          /\ htlcs[s].st \in {"claimed", "onchain"}}) >= 2

\* C9: once no operation is running, no Abandoned payment is left with an empty session
\* set: the failure of its last session produced PaymentFailed and removed it
C9_NoEmptyAbandonedLeft ==
    AllQuiet =>
        \A pid \in PaymentIds :
            ~(pending[pid].kind = "Abandoned" /\ pending[pid].session_privs = {})

\* C10: the session set of an Abandoned or Fulfilled payment never grows, and no
\* session is drawn for a new attempt of it
C10_NoNewAttempts ==
    [][\A pid \in PaymentIds :
          pending[pid].kind \in {"Abandoned", "Fulfilled"} =>
              /\ pending'[pid].session_privs \subseteq pending[pid].session_privs
              /\ \A s \in Sessions :
                    (htlcs'[s].pid = pid /\ htlcs'[s].st = "registered") =>
                        htlcs[s] = htlcs'[s]]_vars

\* a retry of an Abandoned or Fulfilled payment was rejected
C10_Witness ==
    \E t \in Threads :
        /\ Done(t) /\ th[t].res \in {"PE_Abandoned", "PE_Completed"}
        /\ pending[th[t].pid].kind \in {"Abandoned", "Fulfilled"}

\* C11: abandon_payment on a Legacy or Fulfilled payment, or on a payment_id that is not
\* in the registry, leaves the registry as it was and returns no event
C11_AbandonIsNoOp ==
    \A t \in Threads :
        (Done(t) /\ th[t].op = "abandon_payment"
                 /\ th[t].was.kind \in {"None", "Legacy", "Fulfilled"}) =>
            /\ pending[th[t].pid] = th[t].was
            /\ th[t].res = "None"

\* abandon_payment was called on a Legacy payment that has a session
C11_Witness ==
    \E t \in Threads :
        /\ Done(t) /\ th[t].op = "abandon_payment"
        /\ th[t].was.kind = "Legacy" /\ th[t].was.session_privs # {}
        /\ pending[th[t].pid].kind = "Legacy"

\* a call of remove_stale_resolved_payments by thread t has returned; registry is the
\* registry it found
Ticked(t) == Done(t) /\ th[t].op = "remove_stale_resolved_payments"

ReferencedByAnyEvent(pid) == \E k \in 1 .. Len(events) : events[k].pid = pid

AddOps == {"send_payment", "send_payment_with_route", "send_probe"}

Retried(t) ==
    /\ Done(t) /\ th[t].op = "retry_payment_with_route"
    /\ \A k \in 1 .. Len(th[t].route.paths) : th[t].route.paths[k].len # 0

\* the retry would put pending_amt_msat more than 10% over total_msat
Overflows(p, route) ==
    10 * (SumAmt(route.paths) + p.pending_amt_msat) > 11 * p.total_msat

\* the attempts of the payment's strategy are used up
Exhausted(p) == p.strategy # NoStrategy /\ p.count >= p.strategy

RetryRejections ==
    {"PE_NotFound", "PE_Legacy", "PE_Completed", "PE_Abandoned", "PE_RetryOverflow",
     "PE_RetriesExhausted"}

\* C14: retry_payment_with_route returns a ParameterError, each case with its own
\* message, when the payment_id is absent, Legacy, Fulfilled or Abandoned, when the retry
\* would overflow the 10% allowance, or when the strategy is exhausted; it then leaves
\* the registry as it was and does not call the dispatch callback
C14_RejectedRetryIsNoOp ==
    \A t \in Threads :
        Retried(t) =>
            LET was == th[t].was
                res == th[t].res
            IN  /\ was.kind = "None" => res = "PE_NotFound"
                /\ was.kind = "Legacy" => res = "PE_Legacy"
                /\ was.kind = "Fulfilled" => res = "PE_Completed"
                /\ was.kind = "Abandoned" => res = "PE_Abandoned"
                /\ (was.kind = "Retryable" /\ Overflows(was, th[t].route)) =>
                       res = "PE_RetryOverflow"
                /\ (was.kind = "Retryable" /\ ~Overflows(was, th[t].route)
                                           /\ Exhausted(was)) =>
                       res = "PE_RetriesExhausted"
                /\ res \in RetryRejections =>
                       /\ pending[th[t].pid] = was
                       /\ th[t].results = <<>>
                       /\ th[t].privs = <<>>
                       /\ ~th[t].committed

\* a retry of a payment with a session in flight is rejected for the overflow
C14_Witness ==
    \E t \in Threads :
        /\ Retried(t)
        /\ th[t].was.kind = "Retryable" /\ th[t].was.session_privs # {}
        /\ th[t].res = "PE_RetryOverflow"
        /\ pending[th[t].pid] = th[t].was

\* C15: fail_htlc for a session that is not in the payment's set, for a payment_id that
\* is not in the registry, or for a Fulfilled payment is ignored: it pushes no event, it
\* leaves the variant and the pending amounts as they were, and it does not remove the
\* entry
C15_IgnoredFailure ==
    \A t \in Threads :
        (Done(t) /\ th[t].op = "fail_htlc" /\ th[t].ignorable) =>
            LET was == th[t].was
                p == pending[th[t].pid]
            IN  /\ th[t].res = "ignored"
                /\ th[t].evs = <<>>
                /\ p.kind = was.kind
                /\ p.pending_amt_msat = was.pending_amt_msat
                /\ p.pending_fee_msat = was.pending_fee_msat
                /\ p.session_privs \subseteq was.session_privs
                /\ was.kind # "Fulfilled" => p = was

\* the failure of an HTLC of a Fulfilled payment: its session leaves the set and nothing
\* else happens
C15_Witness ==
    \E t \in Threads :
        /\ Done(t) /\ th[t].op = "fail_htlc" /\ th[t].ignorable
        /\ th[t].was.kind = "Fulfilled"
        /\ pending[th[t].pid].kind = "Fulfilled"
        /\ pending[th[t].pid].session_privs # th[t].was.session_privs

\* send_payment_with_route, send_probe and retry_payment_with_route return what
\* pay_route_internal returns
DirectOps == {"send_payment_with_route", "retry_payment_with_route", "send_probe"}

\* thread t called pay_route_internal with a route that passed the validation, and the
\* call has returned: route, privs and results are its route, its sessions and the
\* results of the dispatch callback
Dispatched(t) == Done(t) /\ th[t].op \in DirectOps /\ th[t].results # <<>>

PartialFailures == {"PartialFailureRetry", "PartialFailureNoRetry"}

\* C16: for a route that passes the validation pay_route_internal returns Ok exactly when
\* every path returned Ok, AllFailedResendSafe exactly when every path returned an error
\* other than MonitorUpdateInProgress, and PartialFailure in every other case; there is
\* one result per path, in the order of the paths of the route
C16_Classification ==
    \A t \in Threads :
        Dispatched(t) =>
            LET l == th[t]
                n == Len(l.route.paths)
            IN  /\ Len(l.results) = n /\ Len(l.privs) = n /\ n >= 1
                /\ l.res = "Ok" <=> \A k \in 1 .. n : l.results[k] = "Ok"
                /\ l.res = "AllFailedResendSafe" <=> \A k \in 1 .. n : l.results[k] = "Err"
                /\ l.res \in PartialFailures <=>
                       /\ \E k \in 1 .. n : l.results[k] # "Ok"
                       /\ \E k \in 1 .. n : l.results[k] # "Err"
                /\ \A k \in 1 .. n :
                       IF l.results[k] = "Err"
                       THEN htlcs[l.privs[k]].st = "unsent"
                       ELSE /\ htlcs[l.privs[k]].st = "inflight"
                            /\ htlcs[l.privs[k]].path = l.route.paths[k]

\* a route of two paths, the first refused and the second with its monitor update in
\* progress: PartialFailure
C16_Witness ==
    \E t \in Threads :
        /\ Dispatched(t)
        /\ th[t].results = <<"Err", "MonitorUpdateInProgress">>
        /\ th[t].res \in PartialFailures

\* pay_route_internal has returned to thread t, and remove_outbound_if_all_failed has
\* not run
AfterDispatch(t) ==
    /\ th[t].op \in DirectOps /\ th[t].results # <<>>
    /\ \/ th[t].pc = "cleanup"
       \/ Done(t) /\ ~(th[t].op \in CleanupOps /\ th[t].res = "AllFailedResendSafe")

\* the sum of the numbers of a sequence at the indices of K
RECURSIVE SumAt(_, _)
SumAt(seq, K) ==
    IF K = {} THEN 0
    ELSE LET k == CHOOSE x \in K : TRUE IN seq[k] + SumAt(seq, K \ {k})

\* C17: when the dispatch is over the session set holds the sessions of the paths that
\* returned Ok or MonitorUpdateInProgress and none of the paths that returned another
\* error; pending_amt_msat and pending_fee_msat are lower than with all the paths
\* registered by exactly the amounts and the fees of the removed paths; and
\* final_value_msat of failed_paths_retry is the sum of the last-hop amounts of the
\* removed paths
C17_RemovedPaths ==
    \A t \in Threads :
        AfterDispatch(t) =>
            LET l == th[t]
                p == pending[l.pid]
                n == Len(l.route.paths)
                amts == [k \in 1 .. n |-> l.route.paths[k].amt]
                fees == [k \in 1 .. n |-> l.route.paths[k].fee]
                removed == {k \in 1 .. n : l.results[k] = "Err"}
            IN  /\ p.session_privs =
                       l.was.session_privs \cup {l.privs[k] : k \in (1 .. n) \ removed}
                /\ \A k \in removed : l.privs[k] \notin p.session_privs
                /\ p.pending_amt_msat =
                       l.was.pending_amt_msat + SumAt(amts, 1 .. n) - SumAt(amts, removed)
                /\ p.pending_fee_msat =
                       l.was.pending_fee_msat + SumAt(fees, 1 .. n) - SumAt(fees, removed)
                /\ l.res = "PartialFailureRetry" =>
                       l.final_value_msat = SumAt(amts, removed)

\* a send over PathA and PathB: PathA is refused and PathB has its monitor update in
\* progress; the session and the amounts of PathB stay, a retry of the amount of PathA
\* is proposed
C17_Witness ==
    \E t \in Threads :
        /\ AfterDispatch(t)
        /\ th[t].route.paths = <<PathA, PathB>>
        /\ th[t].results = <<"Err", "MonitorUpdateInProgress">>
        /\ th[t].res = "PartialFailureRetry"
        /\ th[t].final_value_msat = PathA.amt
        /\ pending[th[t].pid].session_privs = {th[t].privs[2]}
        /\ pending[th[t].pid].pending_amt_msat = PathB.amt
        /\ pending[th[t].pid].pending_fee_msat = PathB.fee

\* C18: every call of check_retry_payments returns, whatever the registry holds and
\* whatever the router and the dispatch callback answer
C18_CheckRetryPaymentsReturns ==
    \A t \in Threads :
        (th[t].op = "check_retry_payments") ~> (th[t].op # "check_retry_payments")

\* thread t waits for a mutex that is held
Blocked(t) ==
    /\ Ahead(t)
    /\ NextStep(t).act = "lock"
    /\ \E u \in Threads : Holds(u, NextStep(t).mutex)

\* some thread waits, and no thread is able to make a step of its operation
Deadlocked ==
    /\ \E t \in Threads : Blocked(t)
    /\ \A t \in Threads : Locking(t) => Blocked(t)

\* the step of its plan at which thread t took the mutex it holds
TakenAt(t, m) ==
    CHOOSE i \in 1 .. th[t].at :
        /\ th[t].plan[i] = Lock(m)
        /\ \A j \in (i + 1) .. th[t].at : th[t].plan[j] # Unlock(m)

\* C19: an operation that holds both mutexes took pending_outbound_payments before
\* pending_events; no operation asks for pending_outbound_payments while it holds
\* pending_events; and claim_htlc, finalize_claims, remove_stale_resolved_payments,
\* fail_htlc, abandon_payment, the sends and the retries never deadlock
C19_LockOrder ==
    /\ \A t \in Threads :
          /\ (Holds(t, "registry") /\ Holds(t, "events")) =>
                 TakenAt(t, "registry") < TakenAt(t, "events")
          /\ (Ahead(t) /\ NextStep(t) = Lock("registry")) => ~Holds(t, "events")
          /\ (Ahead(t) /\ NextStep(t).act = "lock") => ~Holds(t, NextStep(t).mutex)
    /\ ~Deadlocked

\* claim_htlc holds both mutexes while fail_htlc, its registry section done, waits for
\* pending_events
C19_Witness ==
    \E t, u \in Threads :
        /\ th[t].op = "claim_htlc" /\ Holds(t, "registry") /\ Holds(t, "events")
        /\ th[u].op = "fail_htlc" /\ Blocked(u) /\ NextStep(u) = Lock("events")

\* the HTLCs of a payment that were handed to a channel (Ok or MonitorUpdateInProgress)
\* and that neither fail_htlc, nor a claim_htlc from the chain, nor finalize_claims has
\* resolved
StillOutstanding(pid) ==
    {s \in Sessions : htlcs[s].pid = pid /\ htlcs[s].st \in {"inflight", "claimed"}}

\* C20: while no send and no retry is in progress, the session set of every payment has
\* as many sessions as the payment has HTLCs still outstanding; no session stays
\* registered for a path that was never dispatched
C20_SessionsAreOutstanding ==
    AllQuiet =>
        \A pid \in PaymentIds :
            Present(pid) =>
                /\ Cardinality(pending[pid].session_privs)
                       = Cardinality(StillOutstanding(pid))
                /\ \A s \in pending[pid].session_privs : htlcs[s].st # "registered"

\* the last-hop amounts and the fees of the paths of a set of sessions
RECURSIVE PathsAmt(_)
PathsAmt(S) ==
    IF S = {} THEN 0
    ELSE LET s == CHOOSE x \in S : TRUE IN htlcs[s].path.amt + PathsAmt(S \ {s})

RECURSIVE PathsFee(_)
PathsFee(S) ==
    IF S = {} THEN 0
    ELSE LET s == CHOOSE x \in S : TRUE IN htlcs[s].path.fee + PathsFee(S \ {s})

\* C21: in every state a Retryable payment has pending_amt_msat equal to the sum of the
\* last-hop amounts of the paths whose sessions are in its session set, and
\* pending_fee_msat equal to the sum of the fees of those paths; no subtraction in
\* remove goes below zero
C21_PendingAmountsAreSums ==
    ~poisoned =>
        \A pid \in PaymentIds :
            pending[pid].kind = "Retryable" =>
                /\ pending[pid].pending_amt_msat = PathsAmt(pending[pid].session_privs)
                /\ pending[pid].pending_fee_msat = PathsFee(pending[pid].session_privs)
                /\ pending[pid].pending_amt_msat >= 0
                /\ pending[pid].pending_fee_msat >= 0

\* a payment sent over two paths, one of which has failed back: the amounts are those
\* of the path that is left
C21_Witness ==
    \E pid \in PaymentIds, s \in Sessions :
        /\ pending[pid].kind = "Retryable"
        /\ Cardinality(pending[pid].session_privs) = 1
        /\ htlcs[s].pid = pid /\ htlcs[s].st = "failed"
        /\ s \notin pending[pid].session_privs
        /\ pending[pid].pending_amt_msat > 0
        /\ pending[pid].pending_fee_msat > 0

\* C22: in every state a Retryable payment has pending_fee_msat <= total_msat * 1.10,
\* whatever routes the router and the caller supply
C22_PendingFeeWithinAllowance ==
    \A pid \in PaymentIds :
        pending[pid].kind = "Retryable" =>
            pending[pid].pending_fee_msat * 100
                <= pending[pid].total_msat * (100 + RETRY_OVERFLOW_PERCENTAGE)
\* the step of thread t that leaves the head of pay_internal (the expiry check and
\* the call of the router)
LeavesHead(t) == th[t].pc = "pay" /\ th'[t] # th[t]

RegistryUntouched == UNCHANGED <<pending, htlcs, nextPriv, events>>

\* C23 (as stated): pay_internal, as the initial send and as a retry, returns
\* "Invoice expired" whenever the expiry time of the invoice is in the past, without
\* dispatching and without touching the registry
C23_ExpiredIsRejected ==
    [][\A t \in Threads :
          (LeavesHead(t) /\ th'[t].expiry \in {"expired", "expired_nostd"}) =>
              /\ th'[t].op = "send_payment" =>
                    /\ th'[t].pc = "done"
                    /\ th'[t].res = Unwind(th[t].stack, "PE_InvoiceExpired")
              /\ RegistryUntouched]_vars

\* C23 (amended): in a build with the std feature pay_internal, as the initial send
\* and as a retry, returns "Invoice expired" when the expiry time of the invoice is in
\* the past; it returns "Failed to find a route" when the router fails; in both cases
\* nothing is dispatched and the registry is as it was: no entry after an initial
\* send, the sessions, the amounts and the attempt count of the payment after a retry
C23_EarlyReturns ==
    [][\A t \in Threads :
          LeavesHead(t) =>
              /\ th'[t].expiry = "expired" =>
                    /\ th'[t].op = "send_payment" =>
                          /\ th'[t].pc = "done"
                          /\ th'[t].res = Unwind(th[t].stack, "PE_InvoiceExpired")
                    /\ RegistryUntouched
              /\ ( /\ th'[t].pc = "done"
                   /\ th'[t].res \in {"PE_InvoiceExpired", "PE_RouteNotFound"} ) =>
                    /\ RegistryUntouched
                    /\ th'[t].results = <<>>]_vars

\* a retry started by send_payment after every path of the first attempt failed
\* found the invoice expired
C23_Witness ==
    \E t \in Threads :
        /\ th[t].pc = "done"
        /\ th[t].op = "send_payment"
        /\ th[t].first_res = "AllFailedResendSafe"
        /\ th[t].expiry = "expired"
        /\ th[t].res = "PE_InvoiceExpired"
        /\ Present(th[t].pid)

\* thread t is in the dispatch loop of the first attempt of its payment
FirstAttemptInDispatch(t) ==
    /\ th[t].pc = "dispatch"
    /\ \/ th[t].op \in {"send_payment_with_route", "send_probe"}
       \/ th[t].op = "send_payment" /\ th[t].initial
    /\ pending[th[t].pid].kind = "Retryable"

\* C24: attempts.count is incremented only after the per-path results of the attempt
\* being counted are known: it is 0 as long as the result of the first attempt of the
\* payment is not known
C24_CountedAfterResults ==
    \A t \in Threads : FirstAttemptInDispatch(t) => pending[th[t].pid].count = 0

\* C25: when retry_payment_with_route is given a route that pay_route_internal rejects
\* (no paths, several paths without a payment secret, a path of more than 20 hops, a
\* non-final hop that is our node), the error is returned with the session set, the
\* pending amounts and attempts.count of the payment exactly as before the call
C25_RejectedRouteIsNoOp ==
    \A t \in Threads :
        (Retried(t) /\ th[t].res \in ValidationErrors) =>
            /\ pending[th[t].pid].session_privs = th[t].was.session_privs
            /\ pending[th[t].pid].pending_amt_msat = th[t].was.pending_amt_msat
            /\ pending[th[t].pid].pending_fee_msat = th[t].was.pending_fee_msat
            /\ pending[th[t].pid].count = th[t].was.count

\* thread t is in pay_route_internal with a recv_value_msat, past the validation and
\* before the first dispatch
HasRecvValue(t) == th[t].pc = "dispatch" /\ th[t].recv_value_msat # NoValue

\* C26: whenever pay_route_internal is called with a recv_value_msat (every retry,
\* with total_msat), that value is at least the sum of the last-hop amounts of the
\* route, for every route retry_payment_with_route accepts: the assertion
\* amt_msat >= total_value never fails
C26_RecvValueCoversRoute ==
    \A t \in Threads :
        HasRecvValue(t) => th[t].recv_value_msat >= SumAmt(th[t].route.paths)

\* C27: whenever finalize_claims processes a source whose payment_id is in the
\* registry, that payment is Fulfilled: the assertion on is_fulfilled never fails,
\* whatever happened to the payment between the claim and the finalization
C27_FinalizedIsFulfilled ==
    \A t \in Threads : th[t].op = "finalize_claims" => th[t].pc # "panicked"

\* the step of thread t is the part of fail_htlc under the registry mutex, and the
\* failure is not ignored
FailsHtlc(t) ==
    /\ Quiet(th[t])
    /\ th'[t].op = "fail_htlc"
    /\ th'[t].pc = "fail_push"

\* the types of the events in a sequence
Types(evs) == {evs[k].type : k \in 1 .. Len(evs)}

\* C28: fail_htlc for a session of a payment sent by send_probe pushes a probe event
\* and neither PaymentPathFailed nor PendingHTLCsForwardable: ProbeSuccessful if the
\* failure is not retryable, ProbeFailed otherwise
C28_ProbeFailure ==
    [][\A t \in Threads :
          /\ (FailsHtlc(t) /\ htlcs[th'[t].priv].probe) =>
                /\ th'[t].evs[1].type = IF th'[t].payment_retryable THEN "ProbeFailed"
                                                                   ELSE "ProbeSuccessful"
                /\ Types(Tail(th'[t].evs)) \subseteq {"PaymentFailed"}
                /\ pending[th'[t].pid].probe
          /\ (th[t].op = "fail_htlc" /\ th[t].pc = "fail_push" /\ th'[t] # th[t]) =>
                events' = events \o th[t].evs]_vars

\* the failure of a probe was final: the probe reached its destination
C28_Witness ==
    \E t \in Threads :
        /\ th[t].op = "fail_htlc" /\ th[t].pc = "done" /\ th[t].res = "pushed"
        /\ ~th[t].payment_retryable
        /\ Types(th[t].evs) = {"ProbeSuccessful"}
        /\ \E k \in 1 .. Len(events) : events[k].type = "ProbeSuccessful"

\* fail_htlc can build the RouteParameters of a retry: from the payment_params of
\* the payment or from those carried by the HTLC
RetryConstructible(p, h) == (p.kind = "Retryable" /\ p.has_params) \/ h.params

\* C29: fail_htlc pushes PendingHTLCsForwardable exactly when the payment is not a
\* probe, the failure is retryable, the payment is auto-retryable now and the retry
\* parameters can be built; the event comes after the PaymentPathFailed of the same
\* call and never together with a PaymentFailed
C29_PendingRetryEvent ==
    [][\A t \in Threads :
          FailsHtlc(t) =>
              LET h == htlcs[th'[t].priv]
                  p == pending[h.pid]
                  evs == th'[t].evs
                  retry == "PendingHTLCsForwardable" \in Types(evs)
              IN  /\ retry <=> /\ ~h.probe
                               /\ th'[t].payment_retryable
                               /\ is_auto_retryable_now(p)
                               /\ RetryConstructible(p, h)
                  /\ retry =>
                        /\ evs[1].type = "PaymentPathFailed"
                        /\ evs[Len(evs)].type = "PendingHTLCsForwardable"
                        /\ Len(evs) = 2]_vars

\* a retryable failure of a path of a payment with attempts left has been pushed
C29_Witness ==
    \E t \in Threads :
        /\ th[t].op = "fail_htlc" /\ th[t].pc = "done" /\ th[t].res = "pushed"
        /\ th[t].payment_retryable
        /\ Len(th[t].evs) = 2
        /\ th[t].evs[2].type = "PendingHTLCsForwardable"
        /\ Len(events) >= 2
        /\ events[Len(events)].type = "PendingHTLCsForwardable"
        /\ events[Len(events) - 1].type = "PaymentPathFailed"

\* the step of thread t is a scan of check_retry_payments
Scans(t) ==
    /\ th[t].pc \in {"idle", "scan"}
    /\ th'[t].op = "check_retry_payments"
    /\ th'[t] # th[t]

\* what makes a payment a candidate of the scan
AutoRetryable(p) ==
    /\ p.kind = "Retryable"
    /\ p.strategy # NoStrategy
    /\ p.count < p.strategy
    /\ p.has_params
    /\ p.pending_amt_msat < p.total_msat

\* C30: check_retry_payments retries a payment only if it is Retryable with a retry
\* strategy, is auto-retryable now, has less pending than its total and has
\* payment_params, and it asks the router for total_msat - pending_amt_msat; a payment
\* that is Legacy, Fulfilled, Abandoned, fully pending, without strategy (probes and
\* send_payment_with_route) or without payment_params is never retried by it
C30_AutomaticRetry ==
    [][\A t \in Threads :
          Scans(t) =>
              IF th'[t].pc = "pay"
              THEN LET p == pending[th'[t].pid]
                   IN  /\ AutoRetryable(p)
                       /\ ~p.probe
                       /\ ~th'[t].initial
                       /\ th'[t].final_value_msat = p.total_msat - p.pending_amt_msat
                       /\ UNCHANGED <<pending, htlcs, events>>
              ELSE /\ th'[t].pc = "done"
                   /\ \A pid \in PaymentIds : ~AutoRetryable(pending[pid])]_vars

\* a payment with one path in flight and one path failed is picked for a retry of
\* what is missing
C30_Witness ==
    \E t \in Threads :
        /\ th[t].op = "check_retry_payments" /\ th[t].pc = "pay"
        /\ pending[th[t].pid].pending_amt_msat > 0
        /\ th[t].final_value_msat > 0
        /\ th[t].final_value_msat =
              pending[th[t].pid].total_msat - pending[th[t].pid].pending_amt_msat

\* C31: two runs started from the same registry and given the same operations, the
\* same entropy stream and the same router and dispatch results reach the same
\* registry, also when check_retry_payments finds several candidates at once
C31_Deterministic ==
    (\A r \in Runs : th[r].pc = "returned") => th["run1"].reg = th["run2"].reg

\* the paths a session can have been inserted with
SomePaths == {PathA, PathB, PathLong, PathLoop, PathShort}

\* the amounts of two payments are the same
SameAmounts(p, q) ==
    /\ p.pending_amt_msat = q.pending_amt_msat
    /\ p.pending_fee_msat = q.pending_fee_msat

\* C32: insert and remove have set semantics on every payment the registry holds:
\* inserting a session that is in the set and removing one that is not return false
\* and leave the payment as it is; the pending amounts change only when the call
\* returns true on a Retryable payment
C32_SetSemantics ==
    \A pid \in PaymentIds, priv \in Sessions, path \in SomePaths :
        LET p == pending[pid]
            i == insert(p, priv, path)
            r == remove(p, priv, path)
        IN  Present(pid) =>
              /\ priv \in p.session_privs => ~InsertRes(p, priv)
              /\ priv \notin p.session_privs => ~RemoveRes(p, priv)
              /\ ~InsertRes(p, priv) => i = p
              /\ ~RemoveRes(p, priv) => r = p
              /\ ~SameAmounts(i, p) => InsertRes(p, priv) /\ p.kind = "Retryable"
              /\ ~SameAmounts(r, p) => RemoveRes(p, priv) /\ p.kind = "Retryable"
              /\ InsertRes(p, priv) => i.session_privs = p.session_privs \cup {priv}
              /\ RemoveRes(p, priv) => r.session_privs = p.session_privs \ {priv}

\* fail_htlc has called remove for a session that a Retryable payment with other
\* sessions did not hold, and the payment is as it was
C32_Witness ==
    \E t \in Threads :
        /\ Done(t) /\ th[t].op = "fail_htlc" /\ th[t].res = "ignored"
        /\ th[t].was.kind = "Retryable"
        /\ th[t].was.session_privs # {}
        /\ th[t].priv \notin th[t].was.session_privs
        /\ th[t].was.pending_amt_msat > 0
        /\ pending[th[t].pid] = th[t].was

\* claim_htlc has turned the payment into Fulfilled and has pushed PaymentSent and
\* nothing else: with from_onchain = false no PaymentPathSuccessful follows it
FulfilsOffchain(pid) ==
    /\ Present(pid)
    /\ ~is_fulfilled(pending[pid])
    /\ is_fulfilled(pending'[pid])
    /\ events' = Append(events, Event("PaymentSent", pid, FALSE))

\* abandon_payment has turned a payment that has sessions into Abandoned
Abandons(t) ==
    /\ ~Done(t)
    /\ Done(t)'
    /\ th'[t].op = "abandon_payment"
    /\ th'[t].was.session_privs # {}
    /\ abandoned(pending'[th'[t].pid])

\* the sessions and the payment hash of the entry are what they were
KeepsSessions(pid) ==
    /\ pending'[pid].session_privs = pending[pid].session_privs
    /\ pending'[pid].probe = pending[pid].probe

\* C33: a claim_htlc with from_onchain = false that turns a payment into Fulfilled,
\* and an abandon_payment that turns a payment with outstanding sessions into
\* Abandoned, leave the set of session_privs of the payment exactly as it was and
\* keep its payment_hash
C33_VariantKeepsSessions ==
    [][/\ \A pid \in PaymentIds : FulfilsOffchain(pid) => KeepsSessions(pid)
       /\ \A t \in Threads : Abandons(t) => KeepsSessions(th'[t].pid)]_vars

\* a payment with two sessions has been claimed off chain: it is Fulfilled, both
\* sessions are in its set and the HTLC of one of them is claimed
C33_Witness ==
    \E pid \in PaymentIds, priv \in Sessions :
        /\ is_fulfilled(pending[pid])
        /\ Cardinality(pending[pid].session_privs) = 2
        /\ priv \in pending[pid].session_privs
        /\ htlcs[priv].pid = pid
        /\ htlcs[priv].st = "claimed"
        /\ hist[pid].sent = 1

\* the events the step has pushed to the queue, in the order of the pushes
Pushed ==
    IF Len(events') > Len(events) /\ SubSeq(events', 1, Len(events)) = events
    THEN SubSeq(events', Len(events) + 1, Len(events'))
    ELSE <<>>

\* C34: every PaymentPathSuccessful of a payment is pushed after the PaymentSent of
\* that payment and for a Fulfilled payment only: the payment was Fulfilled, with
\* its PaymentSent pushed, before the call, or the call has pushed PaymentSent and
\* marked the payment fulfilled just before; a Retryable, Legacy or Abandoned payment
\* gets no PaymentPathSuccessful
C34_SuccessAfterSent ==
    [][\A k \in 1 .. Len(Pushed) :
          Pushed[k].type = "PaymentPathSuccessful" =>
              LET pid == Pushed[k].pid
              IN  /\ pending'[pid].kind = "Fulfilled"
                  /\ \/ pending[pid].kind = "Fulfilled" /\ hist[pid].sent >= 1
                     \/ /\ pending[pid].kind \in {"Retryable", "Legacy", "Abandoned"}
                        /\ \E j \in 1 .. k - 1 : Pushed[j] = Event("PaymentSent", pid, FALSE)]_vars

\* finalize_claims has pushed PaymentPathSuccessful for a payment that an earlier
\* claim_htlc marked fulfilled, and whose PaymentSent the user has handled already
C34_Witness ==
    \E t \in Threads, pid \in PaymentIds :
        /\ Done(t)
        /\ th[t].op = "finalize_claims"
        /\ events = <<Event("PaymentPathSuccessful", pid, FALSE)>>
        /\ hist[pid].sent = 1
        /\ is_fulfilled(pending[pid])

\* C35: within one registration of a payment_id, PaymentSent and PaymentFailed exclude
\* each other and PaymentFailed is produced at most once: a claimed payment produces no
\* PaymentFailed, and a payment that produced PaymentFailed is out of the registry
C35_SentExcludesFailed ==
    \A pid \in PaymentIds :
        /\ hist[pid].failed <= 1
        /\ hist[pid].sent >= 1 => hist[pid].failed = 0
        /\ hist[pid].failed >= 1 => ~Present(pid)

\* abandon_payment was called for a payment that is Fulfilled and has no session left:
\* it returns no event and the payment stays
C35_Witness ==
    \E t \in Threads :
        /\ Done(t)
        /\ th[t].op = "abandon_payment"
        /\ th[t].res = "None"
        /\ is_fulfilled(th[t].was)
        /\ pending[th[t].pid] = th[t].was
        /\ th[t].was.session_privs = {}
        /\ hist[th[t].pid].sent = 1
        /\ hist[th[t].pid].failed = 0

\* C36: for every session_priv at most one path-resolution event (PaymentPathSuccessful,
\* PaymentPathFailed, ProbeSuccessful or ProbeFailed) is ever pushed, whatever sequence
\* of fail_htlc, claim_htlc and finalize_claims the session is delivered to
C36_OnePathEvent ==
    \A priv \in Sessions : htlcs[priv].path_events <= 1

\* the session got its event from an on-chain claim and was delivered again since: to
\* claim_htlc, which left it claimed, and then to finalize_claims
C36_Witness ==
    \E priv \in Sessions :
        /\ htlcs[priv].path_events = 1
        /\ htlcs[priv].st = "finalized"
        /\ \E t \in Threads : Done(t) /\ th[t].op = "finalize_claims"
        /\ is_fulfilled(pending[htlcs[priv].pid])
        /\ hist[htlcs[priv].pid].sent = 1
        /\ events = <<>>

\* the thread is between the two critical sections of fail_htlc and holds the
\* PaymentPathFailed of the payment, which it pushes next
HoldsPathFailed(t, pid) ==
    /\ th[t].pc = "fail_push"
    /\ \E k \in 1 .. Len(th[t].evs) :
          th[t].evs[k].type = "PaymentPathFailed" /\ th[t].evs[k].pid = pid

\* C37: when concurrent fail_htlc calls fail the last sessions of an Abandoned payment,
\* PaymentFailed is pushed after every PaymentPathFailed of the payment: once the
\* PaymentFailed is in the queue, no call has a PaymentPathFailed of the payment left
\* to push
C37_FailedIsLast ==
    \A pid \in PaymentIds :
        (\E k \in 1 .. Len(events) : events[k] = Event("PaymentFailed", pid, FALSE))
            => \A t \in Threads : ~HoldsPathFailed(t, pid)

\* the sessions of the attempt that pay_route_internal has not dispatched yet
ToDispatch(t) == {th[t].privs[k] : k \in th[t].i .. Len(th[t].privs)}

\* C38: the entry of a send or retry stays in the registry until the dispatch and the
\* cleanup of the call are over: while paths are left to dispatch the payment is there
\* and holds their sessions, and remove_outbound_if_all_failed finds an entry to remove
C38_EntryOutlivesTheCall ==
    \A t \in Threads :
        /\ th[t].pc = "dispatch" =>
              /\ Present(th[t].pid)
              /\ ToDispatch(t) \subseteq pending[th[t].pid].session_privs
        /\ th[t].pc = "cleanup" => Present(th[t].pid)

\* the moves of the variant of an entry
VariantMoves ==
    {<<"Retryable", "Abandoned">>, <<"Retryable", "Fulfilled">>,
     <<"Abandoned", "Fulfilled">>, <<"Legacy", "Fulfilled">>}

\* the step is a call of remove_stale_resolved_payments
RemovesStale ==
    \E t \in Threads :
        /\ ~Done(t)
        /\ Done(t)'
        /\ th'[t].op = "remove_stale_resolved_payments"

\* C39: the variant of an entry moves only from Retryable to Abandoned or Fulfilled and
\* from Abandoned or Legacy to Fulfilled; an entry is created as Retryable, never as
\* Legacy; a Fulfilled entry leaves the registry in remove_stale_resolved_payments only
C39_VariantOrder ==
    [][\A pid \in PaymentIds :
          LET a == pending[pid].kind
              b == pending'[pid].kind
          IN  /\ (Present(pid) /\ b # "None" /\ a # b) => <<a, b>> \in VariantMoves
              /\ (~Present(pid) /\ b # "None") => b = "Retryable"
              /\ (a = "Fulfilled" /\ b = "None") => RemovesStale]_vars

====
